---- MODULE Spec2Model ----
(***************************************************************************)
(* A model of api-doc-generator's SwaggerDocGenerator (src/src/index.ts):  *)
(* the schema-to-type resolver, the reference closure, the endpoint        *)
(* naming and the per-tag emitters generateReactHooks and                  *)
(* generateHandlebarsResources.                                            *)
(*                                                                         *)
(* Representation.  A JavaScript string that the code takes apart          *)
(* (identifiers, paths) is a sequence of one-character strings.  A         *)
(* generated text is a sequence of tokens, white space dropped; a token is *)
(* a sequence of strings: an identifier is its characters, a keyword or a  *)
(* punctuation mark is the one-element sequence Kw("...").  A JSON object  *)
(* is a record that has a field exactly when the object has the key, so    *)
(* `x.f` being truthy is  Has(x, "f");  the object {} is <<>>.  An ordered *)
(* JSON map (properties, components.schemas) is a sequence of entries.     *)
(* The JSON key `type` is the field `type` when its value is a string and  *)
(* the field `types` when its value is an array.  `$ref` is the field      *)
(* `ref`, already split at '/'.                                            *)
(***************************************************************************)
EXTENDS Integers, Sequences, FiniteSets, TLC

VARIABLES
    pc,             \* the position of the running call
    api,            \* the entry point that was called
    doc,            \* the SwaggerDoc passed in
    tmpl,           \* the templates on disk: hook template readable, hooks template given / compiles
    endpointsByTag, \* generateReactHooks / generateHandlebarsResources: endpointsByTag
    tagIdx,         \* index of the tag group being processed
    roots,          \* directlyUsedSchemas (initialSchemas of findAllReferencedSchemas)
    result,         \* findAllReferencedSchemas: result, in insertion order
    changed,        \* findAllReferencedSchemas: changed
    passes,         \* number of completed passes of the while loop
    typesContent,   \* the types text of the tag group being processed
    hookTypesUsed,  \* generateReactHooks: hookTypesUsed, in insertion order
    allHookContents,    \* the rendered hook of each endpoint of the group
    allParamInterfaces, \* the parameter interfaces of the group
    out,            \* the returned map (hooksByTag / resourcesByTag), or the returned text
    thrown,         \* the error the call raised, or NoError
    console,        \* console.warn / console.error calls made so far
    run,            \* which generation run over the document this is
    prevOut,        \* what the previous run over the same document returned
    arg,            \* argument of a directly called function; in a generation run,
                    \* the template argument of the call that is being retried
    ret,            \* its return value
    calls,          \* the calls made to axios and fs, in order
    world,          \* what is outside the program: the remote resource, the disk
    suspended       \* the tag groups whose processing is suspended, with their locals

\* the texts of the tag group being processed
groupVars == <<typesContent, hookTypesUsed, allHookContents, allParamInterfaces>>

\* the calls to the outside and its state
ioVars == <<calls, world>>

vars == <<pc, api, doc, tmpl, endpointsByTag, tagIdx, roots, result, changed, passes, groupVars,
          out, thrown, console, run, prevOut, arg, ret, ioVars, suspended>>

----------------------------------------------------------------------------
(* Bounds of the model *)

\* number of schemas in the registries of the closure specification
NumSchemas == 3
\* length of the generated operation identifiers
MaxIdLen == 3
\* generation runs over one document
MaxRuns == 2

----------------------------------------------------------------------------
(* Strings and tokens *)

Kw(s) == <<s>>

Has(x, f) == f \in DOMAIN x

Last(s) == s[Len(s)]

Range(s) == {s[i] : i \in 1..Len(s)}

RECURSIVE Flatten(_)
Flatten(ss) == IF ss = <<>> THEN <<>> ELSE Head(ss) \o Flatten(Tail(ss))

\* Array.prototype.join on texts: the parts separated by the tokens sep
RECURSIVE Join(_, _)
Join(parts, sep) ==
    IF parts = <<>> THEN <<>>
    ELSE IF Len(parts) = 1 THEN parts[1]
    ELSE parts[1] \o sep \o Join(Tail(parts), sep)

\* Array.prototype.includes / indexOf on a sequence
Includes(s, x) == \E i \in 1..Len(s) : s[i] = x

\* the position of the entry of an ordered map with this name, 0 when absent
IndexOfName(entries, name) ==
    IF \E i \in 1..Len(entries) : entries[i].name = name
    THEN CHOOSE i \in 1..Len(entries) :
            /\ entries[i].name = name
            /\ \A j \in 1..(i-1) : entries[j].name # name
    ELSE 0

\* allSchemas[name]: truthy exactly when the registry has the key
InRegistry(allSchemas, name) == IndexOfName(allSchemas, name) # 0

Lookup(allSchemas, name) == allSchemas[IndexOfName(allSchemas, name)].schema

Names(allSchemas) == [i \in 1..Len(allSchemas) |-> allSchemas[i].name]

\* identifiers used by the documents of the model
NameA == <<"A">>
NameB == <<"B">>
NameC == <<"C">>
NameD == <<"D">>
NameE == <<"E">>
Missing == <<"M","i","s","s","i","n","g">>
User == <<"U","s","e","r">>
Profile == <<"P","r","o","f","i","l","e">>
PropId == <<"i","d">>
PropName == <<"n","a","m","e">>
PropEmail == <<"e","m","a","i","l">>
PropOwner == <<"o","w","n","e","r">>

\* the tokens of the generated TypeScript
TsAny == <<Kw("any")>>
Bar == Kw("|")
Amp == Kw("&")
TsNull == Kw("null")
DQ == Kw("\"")
SQ == Kw("'")
\* the quote of a template literal
Tick == Kw("TICK")

\* the `$ref` string "#/components/schemas/<name>", split at '/'
RefTo(name) == [ref |-> <<Kw("#"), Kw("components"), Kw("schemas"), name>>]

\* $ref.split('/').pop()
RefTypeName(schema) == Last(schema.ref)

\* `x.$ref` is truthy: the key is present and the string is not empty
HasRef(schema) == Has(schema, "ref") /\ schema.ref # <<>>

\* the value null (a schema position that holds no object)
Null == [null |-> TRUE]

IsNull(x) == Has(x, "null")

----------------------------------------------------------------------------
(* SchemaTypeResolver: convertTypeToTs, generateSingleTypeDefinition *)

\* {...typeDef, type: t}
WithType(typeDef, t) ==
    [f \in (DOMAIN typeDef \ {"types"}) \cup {"type"} |->
        IF f = "type" THEN t ELSE typeDef[f]]

\* Object.assign(target, source) on ordered maps: an existing key keeps its
\* position and takes the new value, a new key is appended
RECURSIVE ObjectAssign(_, _)
ObjectAssign(target, source) ==
    IF source = <<>> THEN target
    ELSE LET e == Head(source)
             i == IndexOfName(target, e.name)
         IN ObjectAssign(IF i = 0 THEN Append(target, e)
                         ELSE [target EXCEPT ![i] = e],
                         Tail(source))

\* the loop over typeDef.allOf: the names of the $ref members
RECURSIVE AllOfRefTypes(_)
AllOfRefTypes(items) ==
    IF items = <<>> THEN <<>>
    ELSE LET item == Head(items)
         IN (IF HasRef(item)
             THEN (IF RefTypeName(item) # <<>> THEN <<RefTypeName(item)>> ELSE <<>>)
             ELSE <<>>) \o AllOfRefTypes(Tail(items))

\* the loop over typeDef.allOf: the merged properties of the inline object members
RECURSIVE AllOfCombinedProperties(_, _)
AllOfCombinedProperties(items, combined) ==
    IF items = <<>> THEN combined
    ELSE LET item == Head(items)
         IN AllOfCombinedProperties(Tail(items),
                IF ~HasRef(item) /\ Has(item, "type") /\ item.type = "object"
                   /\ Has(item, "properties")
                THEN ObjectAssign(combined, item.properties)
                ELSE combined)

\* the filter(Boolean) of the union branches: empty strings are dropped
FilterBoolean(parts) == SelectSeq(parts, LAMBDA p : p # <<>>)

\* a test that finds no property required
NeverRequired(typeDef, propName) == FALSE

\* typeDef.required && typeDef.required.includes(propName)
IsRequired(typeDef, propName) ==
    Has(typeDef, "required") /\ Includes(typeDef.required, propName)

\* propSchema.description || propSchema.title  (convertTypeToTs)
PropDescription(propSchema) ==
    IF Has(propSchema, "description") THEN <<propSchema.description>>
    ELSE IF Has(propSchema, "title") THEN <<propSchema.title>>
    ELSE <<>>

\* propSchema.title || propSchema.description  (generateSingleTypeDefinition)
PropJsDoc(propSchema) ==
    IF Has(propSchema, "title") THEN <<propSchema.title>>
    ELSE IF Has(propSchema, "description") THEN <<propSchema.description>>
    ELSE <<>>

JsDocTokens(text) ==
    IF text = <<>> THEN <<>> ELSE <<Kw("/**"), text[1], Kw("*/")>>

\* a filter that keeps every entry of the type array
AllTypes(types) == types

\* typeDef.type.filter(t => t !== 'null')
NonNullTypes(types) == SelectSeq(types, LAMBDA t : t # "null")

RECURSIVE convertTypeToTs(_, _)
convertTypeToTs(typeDef, schemaComponents) ==
    IF IsNull(typeDef) THEN TsAny
    ELSE IF HasRef(typeDef) THEN
        (IF RefTypeName(typeDef) # <<>> THEN <<RefTypeName(typeDef)>> ELSE TsAny)
    ELSE IF Has(typeDef, "allOf") THEN
        LET refTypes == AllOfRefTypes(typeDef.allOf)
            combinedProperties == AllOfCombinedProperties(typeDef.allOf, <<>>)
            inlineDef == IF Has(typeDef, "required")
                         THEN [type |-> "object", properties |-> combinedProperties,
                               required |-> typeDef.required]
                         ELSE [type |-> "object", properties |-> combinedProperties]
        IN IF refTypes # <<>> /\ combinedProperties # <<>>
           THEN Join([i \in 1..Len(refTypes) |-> <<refTypes[i]>>], <<Amp>>)
                \o <<Amp>> \o convertTypeToTs(inlineDef, schemaComponents)
           ELSE IF refTypes # <<>>
           THEN Join([i \in 1..Len(refTypes) |-> <<refTypes[i]>>], <<Amp>>)
           ELSE IF combinedProperties # <<>>
           THEN convertTypeToTs(inlineDef, schemaComponents)
           ELSE TsAny
    ELSE IF Has(typeDef, "oneOf") \/ Has(typeDef, "anyOf") THEN
        LET members == IF Has(typeDef, "oneOf") THEN typeDef.oneOf ELSE typeDef.anyOf
            parts == [i \in 1..Len(members) |->
                        IF HasRef(members[i])
                        THEN (IF RefTypeName(members[i]) # <<>>
                              THEN <<RefTypeName(members[i])>> ELSE <<>>)
                        ELSE IF Has(members[i], "type") \/ Has(members[i], "types")
                        THEN convertTypeToTs(members[i], schemaComponents)
                        ELSE TsAny]
            joined == Join(FilterBoolean(parts), <<Bar>>)
        IN IF joined = <<>> THEN TsAny ELSE joined
    ELSE IF Has(typeDef, "types") THEN
        IF Includes(typeDef.types, "null") THEN
            LET nonNullTypes == NonNullTypes(typeDef.types)
            IN IF Len(nonNullTypes) = 1
               THEN convertTypeToTs(WithType(typeDef, nonNullTypes[1]), schemaComponents)
                    \o <<Bar, TsNull>>
               ELSE Join([i \in 1..Len(nonNullTypes) |->
                            convertTypeToTs(WithType(typeDef, nonNullTypes[i]),
                                            schemaComponents)], <<Bar>>)
                    \o <<Bar, TsNull>>
        ELSE
            LET joined == Join([i \in 1..Len(typeDef.types) |->
                                  convertTypeToTs(WithType(typeDef, typeDef.types[i]),
                                                  schemaComponents)], <<Bar>>)
            IN IF joined = <<>> THEN TsAny ELSE joined
    ELSE IF ~Has(typeDef, "type") THEN TsAny
    ELSE IF typeDef.type = "string" THEN
        (IF Has(typeDef, "enum")
         THEN <<DQ>> \o Join([i \in 1..Len(typeDef.enum) |-> <<typeDef.enum[i]>>],
                             <<DQ, Bar, DQ>>) \o <<DQ>>
         ELSE <<Kw("string")>>)
    ELSE IF typeDef.type \in {"integer", "number"} THEN <<Kw("number")>>
    ELSE IF typeDef.type = "boolean" THEN <<Kw("boolean")>>
    ELSE IF typeDef.type = "array" THEN
        (IF Has(typeDef, "items")
         THEN convertTypeToTs(typeDef.items, schemaComponents) \o <<Kw("[]")>>
         ELSE <<Kw("any"), Kw("[]")>>)
    ELSE IF typeDef.type = "object" THEN
        (IF Has(typeDef, "properties")
         THEN LET props == typeDef.properties
                  fields == [i \in 1..Len(props) |->
                      JsDocTokens(PropDescription(props[i].schema))
                      \o <<props[i].name>>
                      \o (IF IsRequired(typeDef, props[i].name) THEN <<>> ELSE <<Kw("?")>>)
                      \o <<Kw(":")>>
                      \o convertTypeToTs(props[i].schema, schemaComponents)
                      \o <<Kw(";")>>]
              IN <<Kw("{")>> \o Flatten(fields) \o <<Kw("}")>>
         ELSE <<Kw("Record"), Kw("<"), Kw("string"), Kw(","), Kw("any"), Kw(">")>>)
    ELSE IF typeDef.type = "null" THEN <<TsNull>>
    ELSE TsAny

\* generateInlineObjectInterface
generateInlineObjectInterface(schema, allSchemas) ==
    IF ~Has(schema, "properties") THEN TsAny
    ELSE LET props == schema.properties
             fields == [i \in 1..Len(props) |->
                 JsDocTokens(PropJsDoc(props[i].schema))
                 \o <<props[i].name>>
                 \o (IF IsRequired(schema, props[i].name) THEN <<>> ELSE <<Kw("?")>>)
                 \o <<Kw(":")>>
                 \o convertTypeToTs(props[i].schema, allSchemas)
                 \o <<Kw(";")>>]
         IN <<Kw("{")>> \o Flatten(fields) \o <<Kw("}")>>

\* the parts of a top-level allOf definition
RECURSIVE AllOfParts(_, _)
AllOfParts(items, allSchemas) ==
    IF items = <<>> THEN <<>>
    ELSE LET part == Head(items)
         IN (IF HasRef(part)
             THEN (IF RefTypeName(part) # <<>> THEN <<(<<RefTypeName(part)>>)>> ELSE <<>>)
             ELSE IF Has(part, "type") /\ part.type = "object" /\ Has(part, "properties")
             THEN <<generateInlineObjectInterface(part, allSchemas)>>
             ELSE <<>>) \o AllOfParts(Tail(items), allSchemas)

generateSingleTypeDefinition(typeName, schema, allSchemas) ==
    IF Has(schema, "enum") THEN
        <<Kw("export"), Kw("type"), typeName, Kw("=")>>
        \o Join([i \in 1..Len(schema.enum) |-> <<SQ, schema.enum[i], SQ>>], <<Bar>>)
        \o <<Kw(";")>>
    ELSE IF Has(schema, "oneOf") \/ Has(schema, "anyOf") THEN
        LET members == IF Has(schema, "oneOf") THEN schema.oneOf ELSE schema.anyOf
            types == [i \in 1..Len(members) |->
                        IF HasRef(members[i])
                        THEN (IF RefTypeName(members[i]) # <<>>
                              THEN <<RefTypeName(members[i])>> ELSE <<>>)
                        ELSE IF Has(members[i], "type") \/ Has(members[i], "types")
                        THEN convertTypeToTs(members[i], allSchemas)
                        ELSE TsAny]
        IN <<Kw("export"), Kw("type"), typeName, Kw("=")>>
           \o Join(FilterBoolean(types), <<Bar>>) \o <<Kw(";")>>
    ELSE IF Has(schema, "allOf") THEN
        <<Kw("export"), Kw("type"), typeName, Kw("=")>>
        \o Join(AllOfParts(schema.allOf, allSchemas), <<Amp>>) \o <<Kw(";")>>
    ELSE IF Has(schema, "type") /\ schema.type = "object" THEN
        LET props == IF Has(schema, "properties") THEN schema.properties ELSE <<>>
            fields == [i \in 1..Len(props) |->
                JsDocTokens(PropJsDoc(props[i].schema))
                \o <<props[i].name>>
                \o (IF IsRequired(schema, props[i].name) THEN <<>> ELSE <<Kw("?")>>)
                \o <<Kw(":")>>
                \o convertTypeToTs(props[i].schema, allSchemas)
                \o <<Kw(";")>>]
        IN <<Kw("export"), Kw("interface"), typeName, Kw("{")>>
           \o Flatten(fields) \o <<Kw("}")>>
    ELSE <<Kw("export"), Kw("type"), typeName, Kw("=")>>
         \o convertTypeToTs(schema, allSchemas) \o <<Kw(";")>>

\* some entry of a list of schema positions holds null
AnyNull(nodes) == \E i \in 1..Len(nodes) : IsNull(nodes[i])

\* convertTypeToTs raises TypeError: it reads item.$ref of a null member of
\* allOf / oneOf / anyOf, or propSchema.description of a null property
RECURSIVE convertTypeToTsThrows(_)
convertTypeToTsThrows(typeDef) ==
    IF IsNull(typeDef) \/ HasRef(typeDef) THEN FALSE
    ELSE IF Has(typeDef, "allOf") THEN
        \/ AnyNull(typeDef.allOf)
        \/ LET combinedProperties == AllOfCombinedProperties(typeDef.allOf, <<>>)
           IN /\ combinedProperties # <<>>
              /\ convertTypeToTsThrows([type |-> "object",
                                        properties |-> combinedProperties])
    ELSE IF Has(typeDef, "oneOf") \/ Has(typeDef, "anyOf") THEN
        LET members == IF Has(typeDef, "oneOf") THEN typeDef.oneOf ELSE typeDef.anyOf
        IN \/ AnyNull(members)
           \/ \E i \in 1..Len(members) :
                /\ ~HasRef(members[i])
                /\ Has(members[i], "type") \/ Has(members[i], "types")
                /\ convertTypeToTsThrows(members[i])
    ELSE IF Has(typeDef, "types") THEN
        \E i \in 1..Len(typeDef.types) :
            /\ Includes(typeDef.types, "null") => typeDef.types[i] # "null"
            /\ convertTypeToTsThrows(WithType(typeDef, typeDef.types[i]))
    ELSE IF ~Has(typeDef, "type") THEN FALSE
    ELSE IF typeDef.type = "array" THEN
        Has(typeDef, "items") /\ convertTypeToTsThrows(typeDef.items)
    ELSE IF typeDef.type = "object" THEN
        /\ Has(typeDef, "properties")
        /\ \E i \in 1..Len(typeDef.properties) :
              \/ IsNull(typeDef.properties[i].schema)
              \/ convertTypeToTsThrows(typeDef.properties[i].schema)
    ELSE FALSE

\* the loop over the properties of an interface raises TypeError: it reads
\* propSchema.title of a null property, or the conversion of a property does
PropertiesThrow(schema) ==
    /\ Has(schema, "properties")
    /\ \E i \in 1..Len(schema.properties) :
          \/ IsNull(schema.properties[i].schema)
          \/ convertTypeToTsThrows(schema.properties[i].schema)

\* generateSingleTypeDefinition raises TypeError
generateSingleTypeDefinitionThrows(schema) ==
    IF Has(schema, "enum") THEN FALSE
    ELSE IF Has(schema, "oneOf") \/ Has(schema, "anyOf") THEN
        LET members == IF Has(schema, "oneOf") THEN schema.oneOf ELSE schema.anyOf
        IN \/ AnyNull(members)
           \/ \E i \in 1..Len(members) :
                /\ ~HasRef(members[i])
                /\ Has(members[i], "type") \/ Has(members[i], "types")
                /\ convertTypeToTsThrows(members[i])
    ELSE IF Has(schema, "allOf") THEN
        \/ AnyNull(schema.allOf)
        \/ \E i \in 1..Len(schema.allOf) :
             /\ ~HasRef(schema.allOf[i])
             /\ Has(schema.allOf[i], "type") /\ schema.allOf[i].type = "object"
             /\ PropertiesThrow(schema.allOf[i])
    ELSE IF Has(schema, "type") /\ schema.type = "object" THEN PropertiesThrow(schema)
    ELSE convertTypeToTsThrows(schema)

----------------------------------------------------------------------------
(* ClosureResolver: findSchemaReferences, findAllReferencedSchemas *)

\* a Set<string> in insertion order: add an element unless it is present
SetAdd(s, x) == IF Includes(s, x) THEN s ELSE Append(s, x)

RECURSIVE SetAddAll(_, _)
SetAddAll(s, xs) == IF xs = <<>> THEN s ELSE SetAddAll(SetAdd(s, Head(xs)), Tail(xs))

\* a walk that finds no reference in any schema
NoReferences(schema, allSchemas) == <<>>

RECURSIVE findSchemaReferences(_, _)
findSchemaReferences(schema, allSchemas) ==
    IF IsNull(schema) THEN <<>>
    ELSE
    LET direct == IF HasRef(schema) /\ RefTypeName(schema) # <<>>
                     /\ InRegistry(allSchemas, RefTypeName(schema))
                  THEN <<RefTypeName(schema)>> ELSE <<>>
        ofSeq(nodes) == Flatten([i \in 1..Len(nodes) |->
                                    findSchemaReferences(nodes[i], allSchemas)])
        inProps == IF Has(schema, "properties")
                   THEN ofSeq([i \in 1..Len(schema.properties) |->
                                  schema.properties[i].schema])
                   ELSE <<>>
        inItems == IF Has(schema, "items")
                   THEN findSchemaReferences(schema.items, allSchemas) ELSE <<>>
        inAllOf == IF Has(schema, "allOf") THEN ofSeq(schema.allOf) ELSE <<>>
        inOneOf == IF Has(schema, "oneOf") THEN ofSeq(schema.oneOf) ELSE <<>>
        inAnyOf == IF Has(schema, "anyOf") THEN ofSeq(schema.anyOf) ELSE <<>>
    IN SetAddAll(<<>>, direct \o inProps \o inItems \o inAllOf \o inOneOf \o inAnyOf)

\* the inner loop over referencedSchemas: add what is new and in the registry
RECURSIVE AddReferenced(_, _, _)
AddReferenced(res, refs, allSchemas) ==
    IF refs = <<>> THEN res
    ELSE AddReferenced(
            IF ~Includes(res, Head(refs)) /\ InRegistry(allSchemas, Head(refs))
            THEN Append(res, Head(refs)) ELSE res,
            Tail(refs), allSchemas)

\* the for loop of one pass, over the snapshot [...result]
RECURSIVE ClosureForLoop(_, _, _)
ClosureForLoop(snapshot, res, allSchemas) ==
    IF snapshot = <<>> THEN res
    ELSE LET typeName == Head(snapshot)
         IN ClosureForLoop(Tail(snapshot),
                IF InRegistry(allSchemas, typeName)
                THEN AddReferenced(res,
                        findSchemaReferences(Lookup(allSchemas, typeName), allSchemas),
                        allSchemas)
                ELSE res,
                allSchemas)

----------------------------------------------------------------------------
(* Documents *)

\* swaggerDoc.components?.schemas || {}
Schemas(d) ==
    IF Has(d, "components") /\ Has(d.components, "schemas")
    THEN d.components.schemas ELSE <<>>

Entry(name, schema) == [name |-> name, schema |-> schema]

Info == [title |-> "Sample API", version |-> "1.0.0"]

AllNames == <<NameA, NameB, NameC, NameD, NameE>>

\* the schema names of the registries of the closure specification
RegNames == SubSeq(AllNames, 1, NumSchemas)

NoTarget == <<>>

Targets == Range(RegNames) \cup {Missing, NoTarget}

\* the name after `name` in registry order, cyclically (the first name for
\* a name outside the registry)
NextName(name) ==
    LET i == IF \E j \in 1..NumSchemas : RegNames[j] = name
             THEN CHOOSE j \in 1..NumSchemas : RegNames[j] = name ELSE 0
    IN RegNames[(i % NumSchemas) + 1]

StringSchema == [type |-> "string"]

\* the places of a schema node in which the code looks for a $ref
EdgeShapes == <<"property", "items", "allOf", "oneOf", "anyOf", "nested", "two", "bare">>

SchemaWithEdge(shape, target) ==
    CASE shape = "property" ->
            [type |-> "object",
             properties |-> <<Entry(PropId, [type |-> "integer"]),
                              Entry(PropOwner, RefTo(target))>>]
      [] shape = "items" -> [type |-> "array", items |-> RefTo(target)]
      [] shape = "allOf" ->
            [allOf |-> <<RefTo(target),
                         [type |-> "object",
                          properties |-> <<Entry(PropName, StringSchema)>>]>>]
      [] shape = "oneOf" -> [oneOf |-> <<StringSchema, RefTo(target)>>]
      [] shape = "anyOf" -> [anyOf |-> <<RefTo(target), [type |-> "integer"]>>]
      [] shape = "nested" ->
            [type |-> "object",
             properties |-> <<Entry(PropOwner,
                [type |-> "array",
                 items |-> [anyOf |-> <<[allOf |-> <<RefTo(target)>>]>>]])>>]
      [] shape = "two" -> [oneOf |-> <<RefTo(target), RefTo(NextName(target))>>]
      [] OTHER -> RefTo(target)

\* A registry: schema i references targetOf[i] (or nothing) through the edge
\* shape number offset + i, so that over all offsets every shape occurs at
\* every position and the schemas of one registry use different shapes.
RegistryOf(offset, targetOf) ==
    [i \in 1..NumSchemas |->
        Entry(RegNames[i],
              IF targetOf[i] = NoTarget THEN StringSchema
              ELSE SchemaWithEdge(EdgeShapes[((offset + i) % Len(EdgeShapes)) + 1],
                                  targetOf[i]))]

Registries ==
    {RegistryOf(offset, targetOf) :
        offset \in 1..Len(EdgeShapes), targetOf \in [1..NumSchemas -> Targets]}

\* the sub-sequences of a sequence (sets of names in registry order)
SubSeqs(s) == {SelectSeq(s, LAMBDA x : x \in S) : S \in SUBSET Range(s)}

NoError == "none"

----------------------------------------------------------------------------
(* findAllReferencedSchemas, called: one pass of its while loop per step *)

\* where findAllReferencedSchemas returns to: its caller in generateReactHooks
\* and generateHandlebarsResources goes on to the type definitions
AfterClosure == IF api = "findAllReferencedSchemas" THEN "closed" ELSE "types"

\* a findAllReferencedSchemas whose loop never sees a pass that adds nothing
ClosurePassAgain ==
    /\ pc = "closure"
    /\ result' = ClosureForLoop(result, result, Schemas(doc))
    /\ changed' = TRUE
    /\ pc' = "closure"
    /\ UNCHANGED passes
    /\ UNCHANGED groupVars
    /\ UNCHANGED ioVars
    /\ UNCHANGED suspended
    /\ UNCHANGED <<api, doc, tmpl, endpointsByTag, tagIdx, roots, out, thrown,
                   console, run, prevOut, arg, ret>>

\* a findAllReferencedSchemas that returns after its first pass
ClosurePassOnce ==
    /\ pc = "closure"
    /\ result' = ClosureForLoop(result, result, Schemas(doc))
    /\ changed' = FALSE
    /\ pc' = AfterClosure
    /\ passes' = passes + 1
    /\ UNCHANGED groupVars
    /\ UNCHANGED ioVars
    /\ UNCHANGED suspended
    /\ UNCHANGED <<api, doc, tmpl, endpointsByTag, tagIdx, roots, out, thrown,
                   console, run, prevOut, arg, ret>>

\* while (changed) { changed = false; for (typeName of [...result]) ... }
\* and, when the pass added nothing, the return
ClosurePass ==
    /\ pc = "closure"
    /\ LET res == ClosureForLoop(result, result, Schemas(doc))
       IN /\ result' = res
          /\ changed' = (res # result)
          /\ pc' = IF res # result THEN "closure" ELSE AfterClosure
    /\ passes' = passes + 1
    /\ UNCHANGED groupVars
    /\ UNCHANGED ioVars
    /\ UNCHANGED suspended
    /\ UNCHANGED <<api, doc, tmpl, endpointsByTag, tagIdx, roots, out, thrown,
                   console, run, prevOut, arg, ret>>

\* the variables a specification does not use
Unused(vs) ==
    /\ ("tmpl" \in vs => tmpl = [hook |-> TRUE, hooks |-> "none"])
    /\ ("endpointsByTag" \in vs => endpointsByTag = <<>>)
    /\ ("tagIdx" \in vs => tagIdx = 0)
    /\ ("roots" \in vs => roots = <<>>)
    /\ ("result" \in vs => result = <<>>)
    /\ ("changed" \in vs => changed = FALSE)
    /\ ("passes" \in vs => passes = 0)
    /\ ("groupVars" \in vs => /\ typesContent = <<>>
                                /\ hookTypesUsed = <<>>
                                /\ allHookContents = <<>>
                                /\ allParamInterfaces = <<>>)
    /\ ("out" \in vs => out = <<>>)
    /\ ("thrown" \in vs => thrown = NoError)
    /\ ("console" \in vs => console = <<>>)
    /\ ("run" \in vs => run = 1)
    /\ ("prevOut" \in vs => prevOut = <<>>)
    /\ ("arg" \in vs => arg = <<>>)
    /\ ("ret" \in vs => ret = <<>>)
    /\ ("ioVars" \in vs => calls = <<>> /\ world = <<>>)
    /\ ("suspended" \in vs => suspended = {})

\* findAllReferencedSchemas(initialSchemas, allSchemas) called on a registry
\* and a set of its names:  result = new Set([...initialSchemas]); changed = true
InitClosure ==
    /\ pc = "closure"
    /\ api = "findAllReferencedSchemas"
    /\ \E reg \in Registries :
        /\ doc = [info |-> Info, components |-> [schemas |-> reg]]
        /\ roots \in SubSeqs(Names(reg))
    /\ result = roots
    /\ changed = TRUE
    /\ passes = 0
    /\ Unused({"suspended", "groupVars", "tmpl", "endpointsByTag", "tagIdx", "out", "thrown", "console",
               "run", "prevOut", "arg", "ret", "ioVars"})

NextClosure == ClosurePass

SpecClosure == InitClosure /\ [][NextClosure]_vars

----------------------------------------------------------------------------
(* Reference graph of a registry, stated on the document alone *)

\* the names a schema node refers to by $ref in itself, its properties, its
\* array items and its allOf / oneOf / anyOf members, at any depth
RECURSIVE RefNamesIn(_)
RefNamesIn(node) ==
    LET Sub(f) == IF Has(node, f)
                  THEN UNION {RefNamesIn(node[f][i]) : i \in 1..Len(node[f])}
                  ELSE {}
    IN (IF HasRef(node) THEN {RefTypeName(node)} ELSE {})
       \cup (IF Has(node, "properties")
             THEN UNION {RefNamesIn(node.properties[i].schema) :
                            i \in 1..Len(node.properties)}
             ELSE {})
       \cup (IF Has(node, "items") THEN RefNamesIn(node.items) ELSE {})
       \cup Sub("allOf") \cup Sub("oneOf") \cup Sub("anyOf")

\* the registry names one reference step away from the names in S
Step(reg, S) ==
    S \cup {n \in Range(Names(reg)) :
              \E m \in S : InRegistry(reg, m) /\ n \in RefNamesIn(Lookup(reg, m))}

RECURSIVE Iterate(_, _, _)
Iterate(reg, S, k) == IF k = 0 THEN S ELSE Iterate(reg, Step(reg, S), k - 1)

\* the registry names reachable from the names in S over chains of any length
Reachable(reg, S) == Iterate(reg, S, Len(reg))

\* C1: when findAllReferencedSchemas returns, its result holds every registry
\* schema name reachable from a root along $ref edges found in properties,
\* array items and allOf / oneOf / anyOf members, whatever the chain's length.
C1_ClosureComplete ==
    (api = "findAllReferencedSchemas" /\ pc = "closed") =>
        Reachable(Schemas(doc), Range(roots)) \subseteq Range(result)

\* a chain A -> B -> C followed from the single root A over two passes
C1_Witness ==
    /\ api = "findAllReferencedSchemas" /\ pc = "closed"
    /\ roots = <<NameA>>
    /\ result = <<NameA, NameB, NameC>>
    /\ NameC \notin RefNamesIn(Lookup(Schemas(doc), NameA))
    /\ passes = 3

----------------------------------------------------------------------------
(* The resolver, called directly on a schema node *)

\* the entries of a `type` array
TypeWords == {"string", "integer", "boolean", "null", "array", "object"}

\* longest `type` array of the model
MaxTypes == 3

RECURSIVE SeqsUpTo(_, _)
SeqsUpTo(S, n) ==
    IF n = 0 THEN {<<>>}
    ELSE LET shorter == SeqsUpTo(S, n - 1)
         IN shorter \cup {Append(s, x) : s \in {t \in shorter : Len(t) = n - 1}, x \in S}

\* what may accompany a `type` array on its node
TypeArrayNodes ==
    LET arrays == SeqsUpTo(TypeWords, MaxTypes)
    IN {[types |-> ts] : ts \in arrays}
       \cup {[types |-> ts, enum |-> <<"a", "b">>] : ts \in arrays}
       \cup {[types |-> ts, items |-> RefTo(NameA)] : ts \in arrays}
       \cup {[types |-> ts, properties |-> <<Entry(PropId, [type |-> "integer"])>>,
              required |-> <<PropId>>] : ts \in arrays}
       \cup {[types |-> <<"string", "null">>, oneOf |-> <<RefTo(NameA)>>],
             [types |-> <<"string", "null">>, allOf |-> <<RefTo(NameA)>>],
             [types |-> <<"string", "null">>,
              ref |-> <<Kw("#"), Kw("components"), Kw("schemas"), NameA>>]}

ScalarNodes ==
    {[type |-> t] : t \in TypeWords \cup {"number", "file"}}
    \cup {<<>>, [type |-> "string", format |-> "date-time"],
          [type |-> "string", enum |-> <<"a", "b">>],
          [type |-> "integer", enum |-> <<"1", "2">>],
          [enum |-> <<"a", "b">>]}

RefNodes ==
    {RefTo(NameA), RefTo(NameB), RefTo(Missing), [ref |-> <<Kw("#"), <<>>>>]}

\* the nodes that occur as members, items and property schemas
MemberNodes ==
    {StringSchema, [type |-> "integer"], <<>>, RefTo(NameA), RefTo(NameB), RefTo(Missing),
     [types |-> <<"string", "null">>],
     [type |-> "string", enum |-> <<"a", "b">>],
     [type |-> "object",
      properties |-> <<Entry(PropId, [type |-> "integer", description |-> "key"])>>],
     [type |-> "object",
      properties |-> <<Entry(PropId, StringSchema), Entry(PropOwner, RefTo(NameB))>>,
      required |-> <<PropOwner>>]}

MemberLists == {<<>>} \cup {<<m>> : m \in MemberNodes}
               \cup {<<m, n>> : m \in MemberNodes, n \in MemberNodes}

CompositeNodes ==
    {[oneOf |-> ms] : ms \in MemberLists}
    \cup {[anyOf |-> ms] : ms \in MemberLists}
    \cup {[allOf |-> ms] : ms \in MemberLists}
    \cup {[allOf |-> ms, required |-> <<PropId>>] : ms \in MemberLists}
    \cup {[type |-> "array", items |-> m] : m \in MemberNodes}
    \cup {[type |-> "object", properties |-> <<Entry(PropName, m)>>] : m \in MemberNodes}
    \cup {[type |-> "object",
           properties |-> <<Entry(PropId, [type |-> "integer"]), Entry(PropOwner, m)>>,
           required |-> <<PropId>>] : m \in MemberNodes}

ResolverNodes == TypeArrayNodes \cup ScalarNodes \cup RefNodes \cup CompositeNodes

\* the registries the resolver is called with: empty, one schema, and two
\* schemas that refer to each other
ResolverRegistries ==
    {<<>>,
     <<Entry(NameA, StringSchema)>>,
     <<Entry(NameA, SchemaWithEdge("property", NameB)),
       Entry(NameB, SchemaWithEdge("items", NameA))>>}

InitResolve ==
    /\ pc = "ready"
    /\ api = "none"
    /\ doc = <<>>
    /\ \E schema \in ResolverNodes, reg \in ResolverRegistries :
        arg = [typeName |-> User, schema |-> schema, allSchemas |-> reg]
    /\ Unused({"suspended", "groupVars", "tmpl", "endpointsByTag", "tagIdx", "roots", "result", "changed", "passes",
               "out", "thrown", "console", "run", "prevOut", "ret", "ioVars"})

\* convertTypeToTs(typeDef, schemaComponents), called
CallConvertTypeToTs ==
    /\ pc = "ready"
    /\ api' = "convertTypeToTs"
    /\ ret' = convertTypeToTs(arg.schema, arg.allSchemas)
    /\ pc' = "returned"
    /\ UNCHANGED groupVars
    /\ UNCHANGED ioVars
    /\ UNCHANGED suspended
    /\ UNCHANGED <<doc, tmpl, endpointsByTag, tagIdx, roots, result, changed, passes,
                   out, thrown, console, run, prevOut, arg>>

\* generateSingleTypeDefinition(typeName, schema, allSchemas), called
CallGenerateSingleTypeDefinition ==
    /\ pc = "ready"
    /\ api' = "generateSingleTypeDefinition"
    /\ ret' = generateSingleTypeDefinition(arg.typeName, arg.schema, arg.allSchemas)
    /\ pc' = "returned"
    /\ UNCHANGED groupVars
    /\ UNCHANGED ioVars
    /\ UNCHANGED suspended
    /\ UNCHANGED <<doc, tmpl, endpointsByTag, tagIdx, roots, result, changed, passes,
                   out, thrown, console, run, prevOut, arg>>

NextResolve == CallConvertTypeToTs \/ CallGenerateSingleTypeDefinition

SpecResolve == InitResolve /\ [][NextResolve]_vars

\* the number of tokens of a text that equal tok
CountToken(text, tok) == Cardinality({i \in 1..Len(text) : text[i] = tok})

\* the fixed scalar mapping table of the specification
ScalarTable(t) ==
    CASE t = "string" -> <<Kw("string")>>
      [] t \in {"integer", "number"} -> <<Kw("number")>>
      [] t = "boolean" -> <<Kw("boolean")>>
      [] OTHER -> TsAny

\* the node reaches the type-array rule: no higher-priority rule applies
ReachesTypeArrayRule(node) ==
    /\ Has(node, "types")
    /\ ~HasRef(node) /\ ~Has(node, "allOf") /\ ~Has(node, "oneOf") /\ ~Has(node, "anyOf")

NonNull(ts) == SelectSeq(ts, LAMBDA t : t # "null")

\* C4: for a node whose `type` is an array containing "null" (and to which no
\* higher-priority rule applies), convertTypeToTs returns the resolved non-null
\* members in declared order joined by '|' and followed by '| null' once: the
\* text ends with '| null', what precedes is the join of the members' own
\* resolutions, a list of scalar members yields the scalar table's entries and
\* a single null, and ["string","null"] alone yields exactly  string | null.
C4_NullableUnion ==
    (api = "convertTypeToTs" /\ pc = "returned" /\ ReachesTypeArrayRule(arg.schema)
     /\ Includes(arg.schema.types, "null")) =>
        LET node == arg.schema
            members == NonNull(node.types)
            each == [i \in 1..Len(members) |->
                        convertTypeToTs(WithType(node, members[i]), arg.allSchemas)]
        IN /\ ret = Join(each, <<Bar>>) \o <<Bar, TsNull>>
           /\ (DOMAIN node = {"types"}
               /\ Range(members) \subseteq {"string", "integer", "boolean"}) =>
                 /\ ret = Join([i \in 1..Len(members) |-> ScalarTable(members[i])], <<Bar>>)
                          \o <<Bar, TsNull>>
                 /\ CountToken(ret, TsNull) = 1
           /\ node = [types |-> <<"string", "null">>] =>
                 ret = <<Kw("string"), Bar, TsNull>>

\* a type array with two null entries and two other members has been resolved
C4_Witness ==
    /\ api = "convertTypeToTs" /\ pc = "returned"
    /\ arg.schema = [types |-> <<"null", "string", "null">>]
    /\ ret = <<Kw("string"), Bar, TsNull>>

\* C10: a $ref that names a schema absent from the registry resolves to the
\* unknown-type placeholder and a non-fatal diagnostic is recorded.
C10_DanglingRefIsUnknown ==
    (api = "convertTypeToTs" /\ pc = "returned" /\ HasRef(arg.schema)
     /\ RefTypeName(arg.schema) # <<>>
     /\ ~InRegistry(arg.allSchemas, RefTypeName(arg.schema))) =>
        (ret = TsAny /\ console # <<>>)

----------------------------------------------------------------------------
(* EndpointClassifier: case conversion, operation identifiers, names *)

LowerLetters == <<"a","b","c","d","e","f","g","h","i","j","k","l","m",
                  "n","o","p","q","r","s","t","u","v","w","x","y","z">>
UpperLetters == <<"A","B","C","D","E","F","G","H","I","J","K","L","M",
                  "N","O","P","Q","R","S","T","U","V","W","X","Y","Z">>
Digits == {"0","1","2","3","4","5","6","7","8","9"}

IsUpper(c) == c \in Range(UpperLetters)
IsLower(c) == c \in Range(LowerLetters)

\* the regular expression class \w
IsWordChar(c) == IsUpper(c) \/ IsLower(c) \/ c \in Digits \/ c = "_"

\* the regular expression class \s
IsSpace(c) == c \in {" ", "\t", "\n"}

ToUpperChar(c) ==
    IF IsLower(c) THEN UpperLetters[CHOOSE i \in 1..Len(LowerLetters) : LowerLetters[i] = c]
    ELSE c

ToLowerChar(c) ==
    IF IsUpper(c) THEN LowerLetters[CHOOSE i \in 1..Len(UpperLetters) : UpperLetters[i] = c]
    ELSE c

\* a conversion that leaves the case of every character as it is
KeepCase(str) == str

\* String.prototype.toLowerCase
toLowerCase(str) == [i \in 1..Len(str) |-> ToLowerChar(str[i])]

\* str.replace(/(?:^\w|[A-Z]|\b\w)/g, f).replace(/\s+/g, ''): every match is one
\* character; f(word, index) is atIndex0 at offset 0 and upper case elsewhere
ReplaceWordStarts(str, lowerAtIndex0) ==
    LET matched(i) == \/ (i = 1 /\ IsWordChar(str[i]))
                      \/ IsUpper(str[i])
                      \/ (IsWordChar(str[i]) /\ (i = 1 \/ ~IsWordChar(str[i-1])))
        replaced == [i \in 1..Len(str) |->
                        IF matched(i)
                        THEN (IF i = 1 /\ lowerAtIndex0 THEN ToLowerChar(str[i])
                              ELSE ToUpperChar(str[i]))
                        ELSE str[i]]
    IN SelectSeq(replaced, LAMBDA c : ~IsSpace(c))

toPascalCase(str) == ReplaceWordStarts(str, FALSE)

toCamelCase(str) == ReplaceWordStarts(str, TRUE)

\* str.split(sep) for a one-character separator
RECURSIVE SplitFrom(_, _, _)
SplitFrom(str, sep, current) ==
    IF str = <<>> THEN <<current>>
    ELSE IF Head(str) = sep THEN <<current>> \o SplitFrom(Tail(str), sep, <<>>)
    ELSE SplitFrom(Tail(str), sep, Append(current, Head(str)))

Split(str, sep) == SplitFrom(str, sep, <<>>)

\* generateOperationId: `${method.toLowerCase()}_${path.replace(/[\/{}]/g, '_')}`
generateOperationId(path, method) ==
    toLowerCase(method) \o <<"_">>
    \o [i \in 1..Len(path) |-> IF path[i] \in {"/", "{", "}"} THEN "_" ELSE path[i]]

\* endpointInfo.operationId || this.generateOperationId(path, method)
OperationIdOf(path, method, endpointInfo) ==
    IF Has(endpointInfo, "operationId") /\ endpointInfo.operationId # <<>>
    THEN endpointInfo.operationId
    ELSE generateOperationId(path, method)

UseChars == <<"u","s","e">>
ParamsChars == <<"P","a","r","a","m","s">>

\* a hook name taken from the segment after the first '_'
HookNameSecondPart(operationId) ==
    IF Includes(operationId, "_")
    THEN UseChars \o toPascalCase(Split(operationId, "_")[2])
    ELSE UseChars \o toPascalCase(operationId)

\* a hook name taken from the whole operation identifier
HookNameWhole(operationId) == UseChars \o toPascalCase(operationId)

\* the hook name of generateReactQueryHook
HookName(operationId) ==
    IF Includes(operationId, "_")
    THEN LET parts == Split(operationId, "_")
         IN IF Len(parts) >= 2
            THEN UseChars \o toPascalCase(parts[Len(parts)])
            ELSE UseChars \o toPascalCase(operationId)
    ELSE UseChars \o toPascalCase(operationId)

\* a replacement that removes nothing
KeepUse(str) == str

\* str.replace('use', ''): the first occurrence of the substring is removed
RECURSIVE RemoveFirstUse(_)
RemoveFirstUse(str) ==
    IF Len(str) < 3 THEN str
    ELSE IF SubSeq(str, 1, 3) = UseChars THEN SubSeq(str, 4, Len(str))
    ELSE <<Head(str)>> \o RemoveFirstUse(Tail(str))

\* the interface name of generateParamInterface
InterfaceName(operationId) ==
    IF Includes(operationId, "_")
    THEN LET parts == Split(operationId, "_")
         IN IF Len(parts) >= 2
            THEN toPascalCase(parts[Len(parts)]) \o ParamsChars
            ELSE toPascalCase(operationId) \o ParamsChars
    ELSE toPascalCase(operationId) \o ParamsChars

\* endpointInfo.parameters?.filter(p => p.in === where) || []
ParamsIn(endpointInfo, where) ==
    IF Has(endpointInfo, "parameters")
    THEN SelectSeq(endpointInfo.parameters, LAMBDA p : p.in = where)
    ELSE <<>>

\* holder.content?.['application/json']?.schema, as a list of zero or one schema
JsonSchema(holder) ==
    IF Has(holder, "content")
       /\ \E i \in 1..Len(holder.content) :
            /\ holder.content[i].mediaType = "application/json"
            /\ Has(holder.content[i].media, "schema")
    THEN <<(holder.content[CHOOSE i \in 1..Len(holder.content) :
                holder.content[i].mediaType = "application/json"]).media.schema>>
    ELSE <<>>

successCodes == <<"200", "201", "204", "202", "203", "205">>

\* endpointInfo.responses[code], as a list of zero or one response
ResponseFor(endpointInfo, code) ==
    IF \E i \in 1..Len(endpointInfo.responses) : endpointInfo.responses[i].code = code
    THEN <<(endpointInfo.responses[CHOOSE i \in 1..Len(endpointInfo.responses) :
                endpointInfo.responses[i].code = code]).response>>
    ELSE <<>>

\* a loop over successCodes that stops at the first listed code that has a
\* response, with or without a JSON content schema
RECURSIVE FirstPresentSchema(_, _)
FirstPresentSchema(endpointInfo, codes) ==
    IF codes = <<>> THEN <<>>
    ELSE LET r == ResponseFor(endpointInfo, Head(codes))
         IN IF r # <<>> THEN JsonSchema(r[1])
            ELSE FirstPresentSchema(endpointInfo, Tail(codes))

\* the loop over successCodes: the schema of the first listed code that has a
\* response with a JSON content schema, as a list of zero or one schema
RECURSIVE FirstSuccessSchema(_, _)
FirstSuccessSchema(endpointInfo, codes) ==
    IF codes = <<>> THEN <<>>
    ELSE LET r == ResponseFor(endpointInfo, Head(codes))
         IN IF r # <<>> /\ JsonSchema(r[1]) # <<>>
            THEN JsonSchema(r[1])
            ELSE FirstSuccessSchema(endpointInfo, Tail(codes))

ResponseSchema(endpointInfo) ==
    IF Has(endpointInfo, "responses")
    THEN FirstSuccessSchema(endpointInfo, successCodes) ELSE <<>>

\* the body schema read when the method is neither get nor delete
BodySchema(method, endpointInfo) ==
    IF toLowerCase(method) # <<"g","e","t">>
       /\ toLowerCase(method) # <<"d","e","l","e","t","e">>
       /\ Has(endpointInfo, "requestBody")
    THEN JsonSchema(endpointInfo.requestBody) ELSE <<>>

\* path.replace(/{(\w+)}/g, (_, param) => `\${params.${toCamelCase(param)}}`)
RECURSIVE FormatPath(_)
FormatPath(path) ==
    IF path = <<>> THEN <<>>
    ELSE IF Head(path) = "{"
            /\ \E j \in 3..Len(path) :
                /\ path[j] = "}"
                /\ \A k \in 2..(j-1) : IsWordChar(path[k])
    THEN LET j == CHOOSE j \in 3..Len(path) :
                    /\ path[j] = "}"
                    /\ \A k \in 2..(j-1) : IsWordChar(path[k])
         IN <<"$", "{", "p","a","r","a","m","s", ".">>
            \o toCamelCase(SubSeq(path, 2, j - 1)) \o <<"}">>
            \o FormatPath(SubSeq(path, j + 1, Len(path)))
    ELSE <<Head(path)>> \o FormatPath(Tail(path))

\* hookData of generateReactQueryHook
HookData(path, method, endpointInfo, schemas) ==
    LET operationId == OperationIdOf(path, method, endpointInfo)
        hookName == HookName(operationId)
        pathParams == ParamsIn(endpointInfo, "path")
        queryParams == ParamsIn(endpointInfo, "query")
        responseSchema == ResponseSchema(endpointInfo)
        bodySchema == BodySchema(method, endpointInfo)
    IN [hookName |-> hookName,
        operationId |-> operationId,
        method |-> toLowerCase(method),
        responseType |-> IF responseSchema # <<>>
                         THEN convertTypeToTs(responseSchema[1], schemas) ELSE TsAny,
        requestBodyType |-> IF bodySchema # <<>>
                            THEN convertTypeToTs(bodySchema[1], schemas) ELSE TsAny,
        hasParams |-> pathParams # <<>> \/ queryParams # <<>>,
        hasPathParams |-> pathParams # <<>>,
        paramInterfaceName |-> RemoveFirstUse(hookName) \o ParamsChars,
        formattedPath |-> FormatPath(path),
        isGetRequest |-> toLowerCase(method) = <<"g","e","t">>]

\* Handlebars' escaping of a {{value}}: & < > " ' become entities
HbsEscape(text) ==
    [i \in 1..Len(text) |->
        CASE text[i] = Amp -> Kw("&amp;")
          [] text[i] = Kw("<") -> Kw("&lt;")
          [] text[i] = Kw(">") -> Kw("&gt;")
          [] text[i] = DQ -> Kw("&quot;")
          [] text[i] = SQ -> Kw("&#x27;")
          [] OTHER -> text[i]]

\* templates/hooks/individual-hook.hbs, rendered with hookData
RenderIndividualHook(h) ==
    LET call(verb) ==
            <<Kw("const"), Kw("response"), Kw("="), Kw("await"), Kw("axios"), Kw("."),
              verb, Kw("<")>> \o HbsEscape(h.responseType)
            \o <<Kw(">"), Kw("("), Tick, h.formattedPath, Tick>>
        tail == <<Kw(")"), Kw(";"), Kw("return"), Kw("response"), Kw("."), Kw("data"),
                  Kw(";"), Kw("}"), Kw(",")>>
        query(withParams) ==
            <<Kw("return"), Kw("useQuery"), Kw("("), Kw("{"), Kw("queryKey"), Kw(":"),
              Kw("["), SQ, h.operationId, SQ>>
            \o (IF withParams THEN <<Kw(","), Kw("params")>> ELSE <<>>)
            \o <<Kw("]"), Kw(","), Kw("queryFn"), Kw(":"), Kw("async"), Kw("("), Kw(")"),
                 Kw("=>"), Kw("{")>>
            \o call(Kw("get"))
            \o (IF withParams THEN <<Kw(","), Kw("{"), Kw("params"), Kw("}")>> ELSE <<>>)
            \o tail \o <<Kw("}"), Kw(")"), Kw(";"), Kw("}"), Kw(";")>>
        mutation ==
            <<Kw("const"), Kw("queryClient"), Kw("="), Kw("useQueryClient"), Kw("("),
              Kw(")"), Kw(";"),
              Kw("return"), Kw("useMutation"), Kw("("), Kw("{"), Kw("mutationFn"), Kw(":"),
              Kw("async"), Kw("("), Kw("data"), Kw(":")>> \o HbsEscape(h.requestBodyType)
            \o <<Kw(")"), Kw("=>"), Kw("{")>>
            \o call(h.method) \o <<Kw(","), Kw("data")>> \o tail
            \o <<Kw("onSuccess"), Kw(":"), Kw("("), Kw(")"), Kw("=>"), Kw("{"),
                 Kw("queryClient"), Kw("."), Kw("invalidateQueries"), Kw("("), Kw("{"),
                 Kw("queryKey"), Kw(":"), Kw("["), SQ, h.operationId, SQ, Kw("]"), Kw("}"),
                 Kw(")"), Kw(";"), Kw("}"), Kw(","), Kw("}"), Kw(")"), Kw(";"), Kw("}"),
                 Kw(";")>>
        head(argName, argType) ==
            <<Kw("export"), Kw("const"), h.hookName, Kw("="), Kw("(")>>
            \o (IF argName = <<>> THEN <<>> ELSE <<argName, Kw(":")>> \o argType)
            \o <<Kw(")"), Kw("=>"), Kw("{")>>
    IN IF h.isGetRequest
       THEN (IF h.hasParams
             THEN head(Kw("params"), <<h.paramInterfaceName>>) \o query(TRUE)
             ELSE head(<<>>, <<>>) \o query(FALSE))
       ELSE (IF h.hasPathParams
             THEN head(Kw("params"), <<h.paramInterfaceName>>) \o mutation
             ELSE head(Kw("data"), HbsEscape(h.requestBodyType)) \o mutation)

TemplateError == Kw("ENOENT")

\* generateReactQueryHook: the rendered template, or the error comment when the
\* template file cannot be read
generateReactQueryHook(path, method, endpointInfo, schemas, templateReadable) ==
    IF templateReadable
    THEN RenderIndividualHook(HookData(path, method, endpointInfo, schemas))
    ELSE <<Kw("//"), Kw("Error"), Kw("generating"), Kw("hook"), Kw("for"),
           OperationIdOf(path, method, endpointInfo), Kw(":"), TemplateError>>

\* generateParamInterface: the interface text, <<>> for the empty string
generateParamInterface(path, method, endpointInfo, schemas) ==
    IF ~Has(endpointInfo, "parameters") \/ endpointInfo.parameters = <<>> THEN <<>>
    ELSE
    LET pathParams == ParamsIn(endpointInfo, "path")
        queryParams == ParamsIn(endpointInfo, "query")
        operationId == OperationIdOf(path, method, endpointInfo)
        line(param) ==
            <<toCamelCase(param.name)>>
            \o (IF Has(param, "required") /\ param.required THEN <<>> ELSE <<Kw("?")>>)
            \o <<Kw(":")>>
            \o convertTypeToTs(IF Has(param, "schema") THEN param.schema ELSE <<>>, schemas)
            \o <<Kw(";")>>
        lines(params) == Flatten([i \in 1..Len(params) |-> line(params[i])])
    IN IF pathParams = <<>> /\ queryParams = <<>> THEN <<>>
       ELSE <<Kw("export"), Kw("interface"), InterfaceName(operationId), Kw("{")>>
            \o lines(pathParams) \o lines(queryParams) \o <<Kw("}")>>

----------------------------------------------------------------------------
(* The endpoint naming, called directly on an endpoint *)

Get == <<"g","e","t">>
GetUpper == <<"G","E","T">>
Post == <<"p","o","s","t">>
Put == <<"p","u","t">>
Delete == <<"d","e","l","e","t","e">>

PathUsers == <<"/","u","s","e","r","s">>
PathUsersId == <<"/","u","s","e","r","s","/","{","i","d","}">>
PathProfiles == <<"/","p","r","o","f","i","l","e","s">>

IdUserControllerGetUser ==
    <<"u","s","e","r","C","o","n","t","r","o","l","l","e","r","_","g","e","t","U","s","e","r">>
IdAdminControllerGetUser ==
    <<"a","d","m","i","n","C","o","n","t","r","o","l","l","e","r","_","g","e","t","U","s","e","r">>
IdGetUser == <<"g","e","t","U","s","e","r">>
IdCreateUser == <<"c","r","e","a","t","e","U","s","e","r">>
UseGetUser == <<"u","s","e","G","e","t","U","s","e","r">>

\* the characters of the generated operation identifiers: a lower-case and an
\* upper-case letter, the separator, and a character outside \w
IdAlphabet == {"a", "B", "_", "-"}

OperationIds ==
    SeqsUpTo(IdAlphabet, MaxIdLen)
    \cup {IdUserControllerGetUser, IdAdminControllerGetUser, IdGetUser}

ParamId(required) ==
    [name |-> PropId, in |-> "path", required |-> required, schema |-> [type |-> "integer"]]
ParamQuery ==
    [name |-> <<"p","a","g","e","-","s","i","z","e">>, in |-> "query",
     schema |-> [type |-> "integer"]]
ParamHeader == [name |-> <<"x">>, in |-> "header", schema |-> StringSchema]

ParameterLists ==
    {<<>>, <<ParamId(TRUE)>>, <<ParamQuery>>, <<ParamHeader>>, <<ParamId(TRUE), ParamQuery>>}

JsonContent(schema) ==
    <<[mediaType |-> "application/json", media |-> [schema |-> schema]]>>

ResponseOf(code, schema) ==
    [code |-> code, response |-> [description |-> "ok", content |-> JsonContent(schema)]]

ResponseNoContent(code) == [code |-> code, response |-> [description |-> "none"]]

UserSchema ==
    [type |-> "object",
     properties |-> <<Entry(PropId, [type |-> "integer"]),
                      Entry(PropName, StringSchema),
                      Entry(PropEmail, [types |-> <<"string", "null">>])>>,
     required |-> <<PropId, PropName>>]

UserRegistry == <<Entry(User, UserSchema)>>

\* the endpoint descriptions the naming is called with
NamingEndpoints ==
    {[path |-> path, method |-> method,
      endpointInfo |->
        [f \in {"responses"}
               \cup (IF id = <<>> THEN {} ELSE {"operationId"})
               \cup (IF params = <<>> THEN {} ELSE {"parameters"}) |->
            CASE f = "responses" -> <<ResponseOf("200", RefTo(User))>>
              [] f = "operationId" -> id
              [] OTHER -> params],
      schemas |-> UserRegistry] :
        path \in {PathUsers, PathUsersId},
        method \in {Get, GetUpper, Post, Delete},
        id \in OperationIds,
        params \in ParameterLists}

InitNaming ==
    /\ pc = "ready"
    /\ api = "none"
    /\ doc = <<>>
    /\ arg \in NamingEndpoints
    /\ tmpl \in {[hook |-> readable, hooks |-> "none"] : readable \in BOOLEAN}
    /\ Unused({"suspended", "groupVars", "endpointsByTag", "tagIdx", "roots", "result", "changed", "passes",
               "out", "thrown", "console", "run", "prevOut", "ret", "ioVars"})

\* console.error(`Error reading template file: ${error.message}`)
TemplateReadError == <<Kw("error"), Kw("Error reading template file"), TemplateError>>

\* generateReactQueryHook(path, method, endpointInfo, schemas), called
CallGenerateReactQueryHook ==
    /\ pc = "ready"
    /\ api' = "generateReactQueryHook"
    /\ ret' = generateReactQueryHook(arg.path, arg.method, arg.endpointInfo, arg.schemas,
                                     tmpl.hook)
    /\ console' = IF tmpl.hook THEN console ELSE Append(console, TemplateReadError)
    /\ pc' = "returned"
    /\ UNCHANGED groupVars
    /\ UNCHANGED ioVars
    /\ UNCHANGED suspended
    /\ UNCHANGED <<doc, tmpl, endpointsByTag, tagIdx, roots, result, changed, passes,
                   out, thrown, run, prevOut, arg>>

\* generateParamInterface(path, method, endpointInfo, schemas), called
CallGenerateParamInterface ==
    /\ pc = "ready"
    /\ api' = "generateParamInterface"
    /\ ret' = generateParamInterface(arg.path, arg.method, arg.endpointInfo, arg.schemas)
    /\ pc' = "returned"
    /\ UNCHANGED groupVars
    /\ UNCHANGED ioVars
    /\ UNCHANGED suspended
    /\ UNCHANGED <<doc, tmpl, endpointsByTag, tagIdx, roots, result, changed, passes,
                   out, thrown, console, run, prevOut, arg>>

NextNaming == CallGenerateReactQueryHook \/ CallGenerateParamInterface

SpecNaming == InitNaming /\ [][NextNaming]_vars

\* the part of str after its last sep (str itself has a sep)
AfterLast(str, sep) ==
    LET k == CHOOSE k \in 1..Len(str) :
                /\ str[k] = sep
                /\ \A j \in (k+1)..Len(str) : str[j] # sep
    IN SubSeq(str, k + 1, Len(str))

\* the operation identifier of the endpoint the naming was called with: the
\* declared one, or else the one synthesized from method and path
ArgOperationId ==
    IF Has(arg.endpointInfo, "operationId") THEN arg.endpointInfo.operationId
    ELSE generateOperationId(arg.path, arg.method)

\* the name that a rendered binding declares: export const <name> = ...
BindingNameOf(hook) == hook[3]

\* C5: the binding name is "use" followed by the PascalCase form of the segment
\* after the last '_' of the operation identifier when it contains '_', and of
\* the full identifier when it does not; userController_getUser gives useGetUser.
C5_BindingName ==
    (api = "generateReactQueryHook" /\ pc = "returned" /\ tmpl.hook) =>
        /\ BindingNameOf(ret) =
             UseChars \o toPascalCase(IF "_" \in Range(ArgOperationId)
                                      THEN AfterLast(ArgOperationId, "_")
                                      ELSE ArgOperationId)
        /\ ArgOperationId = IdUserControllerGetUser => BindingNameOf(ret) = UseGetUser

\* userController_getUser has been named useGetUser
C5_Witness ==
    /\ api = "generateReactQueryHook" /\ pc = "returned" /\ tmpl.hook
    /\ ArgOperationId = IdUserControllerGetUser
    /\ BindingNameOf(ret) = UseGetUser

----------------------------------------------------------------------------
(* BindingEmitter: the schemas a tag group uses *)

\* a test that looks at the $ref of the node itself only
IsRefTo(schema, targetSchemaName, allSchemas) ==
    ~IsNull(schema) /\ HasRef(schema) /\ RefTypeName(schema) = targetSchemaName

\* schemaContainsRef(schema, targetSchemaName, allSchemas)
RECURSIVE schemaContainsRef(_, _, _)
schemaContainsRef(schema, targetSchemaName, allSchemas) ==
    LET inSeq(nodes) == \E i \in 1..Len(nodes) :
                            schemaContainsRef(nodes[i], targetSchemaName, allSchemas)
    IN IF IsNull(schema) THEN FALSE
       ELSE IF HasRef(schema) /\ RefTypeName(schema) = targetSchemaName THEN TRUE
       ELSE IF Has(schema, "properties")
               /\ inSeq([i \in 1..Len(schema.properties) |-> schema.properties[i].schema])
       THEN TRUE
       ELSE IF Has(schema, "items")
               /\ schemaContainsRef(schema.items, targetSchemaName, allSchemas) THEN TRUE
       ELSE IF Has(schema, "allOf") /\ inSeq(schema.allOf) THEN TRUE
       ELSE IF Has(schema, "oneOf") /\ inSeq(schema.oneOf) THEN TRUE
       ELSE IF Has(schema, "anyOf") /\ inSeq(schema.anyOf) THEN TRUE
       ELSE FALSE

\* the schemas of every media type of holder.content
ContentSchemas(holder) ==
    IF Has(holder, "content")
    THEN LET with == SelectSeq(holder.content, LAMBDA c : Has(c.media, "schema"))
         IN [i \in 1..Len(with) |-> with[i].media.schema]
    ELSE <<>>

\* isSchemaUsedInEndpoints(schemaName, endpoints, allSchemas)
isSchemaUsedInEndpoints(schemaName, endpoints, allSchemas) ==
    \E e \in 1..Len(endpoints) :
        LET endpointInfo == endpoints[e].endpointInfo
            uses(schemaList) ==
                \E i \in 1..Len(schemaList) :
                    schemaContainsRef(schemaList[i], schemaName, allSchemas)
        IN \/ /\ Has(endpointInfo, "responses")
              /\ \E r \in 1..Len(endpointInfo.responses) :
                    uses(ContentSchemas(endpointInfo.responses[r].response))
           \/ /\ Has(endpointInfo, "parameters")
              /\ \E p \in 1..Len(endpointInfo.parameters) :
                    /\ Has(endpointInfo.parameters[p], "schema")
                    /\ schemaContainsRef(endpointInfo.parameters[p].schema, schemaName,
                                         allSchemas)
           \/ /\ Has(endpointInfo, "requestBody")
              /\ uses(ContentSchemas(endpointInfo.requestBody))

\* directlyUsedSchemas: the registry names used by the endpoints, in registry order
DirectlyUsedSchemas(endpoints, schemas) ==
    SelectSeq(Names(schemas), LAMBDA n : isSchemaUsedInEndpoints(n, endpoints, schemas))

\* typeStr.lastIndexOf(tok), 0 when absent
LastIndexOf(text, tok) ==
    IF Includes(text, tok)
    THEN CHOOSE i \in 1..Len(text) : text[i] = tok /\ \A j \in (i+1)..Len(text) : text[j] # tok
    ELSE 0

\* typeStr.indexOf(tok), 0 when absent
IndexOf(text, tok) ==
    IF Includes(text, tok)
    THEN CHOOSE i \in 1..Len(text) : text[i] = tok /\ \A j \in 1..(i-1) : text[j] # tok
    ELSE 0

\* extractTypeNamesFromType(typeStr, typeSet, allSchemas): the type set afterwards
RECURSIVE extractTypeNamesFromType(_, _, _)
RECURSIVE ExtractFromParts(_, _, _)
ExtractFromParts(parts, typeSet, allSchemas) ==
    IF parts = <<>> THEN typeSet
    ELSE ExtractFromParts(Tail(parts),
                          extractTypeNamesFromType(Head(parts), typeSet, allSchemas),
                          allSchemas)

extractTypeNamesFromType(typeStr, typeSet, allSchemas) ==
    IF typeStr = <<>> THEN typeSet
    ELSE IF Includes(typeStr, Bar)
    THEN ExtractFromParts(Split(typeStr, Bar), typeSet, allSchemas)
    ELSE IF Last(typeStr) = Kw("[]")
    THEN extractTypeNamesFromType(SubSeq(typeStr, 1, Len(typeStr) - 1), typeSet, allSchemas)
    ELSE IF Len(typeStr) >= 2 /\ typeStr[1] = Kw("Array") /\ typeStr[2] = Kw("<")
    THEN (IF LastIndexOf(typeStr, Kw(">")) > 3
          THEN extractTypeNamesFromType(
                    SubSeq(typeStr, 3, LastIndexOf(typeStr, Kw(">")) - 1), typeSet, allSchemas)
          ELSE typeSet)
    ELSE IF Includes(typeStr, Amp)
    THEN ExtractFromParts(Split(typeStr, Amp), typeSet, allSchemas)
    ELSE IF Includes(typeStr, Kw("<")) /\ Includes(typeStr, Kw(">"))
    THEN LET bracketIndex == IndexOf(typeStr, Kw("<"))
             contentEnd == LastIndexOf(typeStr, Kw(">"))
             withGeneric == IF bracketIndex = 2 /\ InRegistry(allSchemas, typeStr[1])
                            THEN SetAdd(typeSet, typeStr[1]) ELSE typeSet
         IN IF contentEnd > bracketIndex + 1
            THEN extractTypeNamesFromType(SubSeq(typeStr, bracketIndex + 1, contentEnd - 1),
                                          withGeneric, allSchemas)
            ELSE withGeneric
    ELSE IF Len(typeStr) = 1 /\ InRegistry(allSchemas, typeStr[1])
    THEN SetAdd(typeSet, typeStr[1])
    ELSE typeSet

----------------------------------------------------------------------------
(* BindingEmitter: grouping by tag *)

General == <<"G","e","n","e","r","a","l">>

\* (endpointInfo.tags && endpointInfo.tags[0]) ? endpointInfo.tags[0] : 'General'
TagOf(endpointInfo) ==
    IF Has(endpointInfo, "tags") /\ endpointInfo.tags # <<>> /\ endpointInfo.tags[1] # <<>>
    THEN endpointInfo.tags[1] ELSE General

\* the position of a tag among the keys of an ordered map, 0 when absent
IndexOfTag(entries, tag) ==
    IF \E i \in 1..Len(entries) : entries[i].tag = tag
    THEN CHOOSE i \in 1..Len(entries) : entries[i].tag = tag
    ELSE 0

\* the endpoints of swaggerDoc.paths in the order of Object.entries
EndpointsOf(paths) ==
    Flatten([i \in 1..Len(paths) |->
                [j \in 1..Len(paths[i].methods) |->
                    [path |-> paths[i].path,
                     method |-> paths[i].methods[j].method,
                     endpointInfo |-> paths[i].methods[j].endpointInfo]]])

\* endpointsByTag[tag].push({ path, method, endpointInfo }) for each endpoint
RECURSIVE PushByTag(_, _)
PushByTag(byTag, endpoints) ==
    IF endpoints = <<>> THEN byTag
    ELSE LET e == Head(endpoints)
             tag == TagOf(e.endpointInfo)
             i == IndexOfTag(byTag, tag)
         IN PushByTag(IF i = 0 THEN Append(byTag, [tag |-> tag, endpoints |-> <<e>>])
                      ELSE [byTag EXCEPT ![i].endpoints = Append(@, e)],
                      Tail(endpoints))

\* the properties that the object literal {} inherits from Object.prototype
ObjectPrototypeKeys ==
    {<<"c","o","n","s","t","r","u","c","t","o","r">>,
     <<"t","o","S","t","r","i","n","g">>}

\* the position of the first endpoint whose push throws, 0 when none does:
\* endpointsByTag[tag] of an inherited property is not an array, so the
\* group is not created and endpointsByTag[tag].push is not a function
FirstPushThrows(endpoints) ==
    IF \E i \in 1..Len(endpoints) : TagOf(endpoints[i].endpointInfo) \in ObjectPrototypeKeys
    THEN CHOOSE i \in 1..Len(endpoints) :
            /\ TagOf(endpoints[i].endpointInfo) \in ObjectPrototypeKeys
            /\ \A j \in 1..(i - 1) : TagOf(endpoints[j].endpointInfo) \notin ObjectPrototypeKeys
    ELSE 0

\* an endpointsByTag that keeps the groups of the previous call
KeptEndpointsByTag(previous) == previous

\* const endpointsByTag = {}: every call starts from its own empty object
NewEndpointsByTag(previous) == <<>>

\* a map that holds only the entry written last
MapSetOnly(map, entry) == <<entry>>

\* Map.prototype.set on a map in insertion order
MapSet(map, entry) ==
    IF IndexOfTag(map, entry.tag) = 0 THEN Append(map, entry)
    ELSE [map EXCEPT ![IndexOfTag(map, entry.tag)] = entry]

----------------------------------------------------------------------------
(* BindingEmitter: the texts of one tag group *)

\* `// ${toPascalCase(tag)} API Hooks`  /  `// ${toPascalCase(tag)} API Types`
HeaderLine(tag, what) == <<Kw("//"), toPascalCase(tag), Kw("API"), Kw(what)>>

ReactQueryModule == Kw("react-query")

\* `import { a, b } from 'react-query';`
ReactQueryImport(functions) ==
    <<Kw("import"), Kw("{")>>
    \o Join([i \in 1..Len(functions) |-> <<Kw(functions[i])>>], <<Kw(",")>>)
    \o <<Kw("}"), Kw("from"), SQ, ReactQueryModule, SQ, Kw(";")>>

AxiosImport == <<Kw("import"), Kw("axios"), Kw("from"), SQ, Kw("axios"), SQ, Kw(";")>>

\* `import type { A, B } from './${toCamelCase(tag)}.types';`
TypeImport(typeNames, tag) ==
    <<Kw("import"), Kw("type"), Kw("{")>>
    \o Join([i \in 1..Len(typeNames) |-> <<typeNames[i]>>], <<Kw(",")>>)
    \o <<Kw("}"), Kw("from"), SQ,
         <<".", "/">> \o toCamelCase(tag) \o <<".", "t", "y", "p", "e", "s">>,
         SQ, Kw(";")>>

\* the definitions of the needed schemas, in the order of the set
TypeDefinitions(names, schemas) ==
    Flatten([i \in 1..Len(names) |->
                IF InRegistry(schemas, names[i])
                THEN generateSingleTypeDefinition(names[i], Lookup(schemas, names[i]), schemas)
                ELSE <<>>])

\* the loop over the needed schemas raises TypeError at a malformed definition
TypeDefinitionsThrow(names, schemas) ==
    \E i \in 1..Len(names) :
        /\ InRegistry(schemas, names[i])
        /\ generateSingleTypeDefinitionThrows(Lookup(schemas, names[i]))

\* generateReactQueryHook resolves the response type and the request body
\* type before its try block: a TypeError of the conversion leaves the loop
HookContentsThrow(endpoints) ==
    \E i \in 1..Len(endpoints) :
        LET response == ResponseSchema(endpoints[i].endpointInfo)
            body == BodySchema(endpoints[i].method, endpoints[i].endpointInfo)
        IN \/ response # <<>> /\ convertTypeToTsThrows(response[1])
           \/ body # <<>> /\ convertTypeToTsThrows(body[1])

\* generateParamInterface resolves the schema of every path and query parameter
ParamInterfacesThrow(endpoints) ==
    \E i \in 1..Len(endpoints) :
        LET params == ParamsIn(endpoints[i].endpointInfo, "path")
                      \o ParamsIn(endpoints[i].endpointInfo, "query")
        IN \E k \in 1..Len(params) :
            Has(params[k], "schema") /\ convertTypeToTsThrows(params[k].schema)

\* allParamInterfaces: the non-empty parameter interfaces, each text once
RECURSIVE ParamInterfaces(_, _, _)
ParamInterfaces(endpoints, schemas, acc) ==
    IF endpoints = <<>> THEN acc
    ELSE LET e == Head(endpoints)
             paramInterface == generateParamInterface(e.path, e.method, e.endpointInfo,
                                                      schemas)
         IN ParamInterfaces(Tail(endpoints), schemas,
                IF paramInterface # <<>> /\ ~Includes(acc, paramInterface)
                THEN Append(acc, paramInterface) ELSE acc)

\* the hook texts of the endpoints of a group
HookContents(endpoints, schemas, templateReadable) ==
    [i \in 1..Len(endpoints) |->
        generateReactQueryHook(endpoints[i].path, endpoints[i].method,
                               endpoints[i].endpointInfo, schemas, templateReadable)]

\* the loop over the endpoints of generateReactHooks: the type names of the
\* response type and then of the request body type of each endpoint
RECURSIVE EndpointTypesUsed(_, _, _)
EndpointTypesUsed(endpoints, schemas, typeSet) ==
    IF endpoints = <<>> THEN typeSet
    ELSE LET endpointInfo == Head(endpoints).endpointInfo
             responseSchema == ResponseSchema(endpointInfo)
             bodySchema == BodySchema(Head(endpoints).method, endpointInfo)
             afterResponse ==
                IF responseSchema # <<>>
                THEN extractTypeNamesFromType(convertTypeToTs(responseSchema[1], schemas),
                                              typeSet, schemas)
                ELSE typeSet
             afterBody ==
                IF bodySchema # <<>>
                THEN extractTypeNamesFromType(convertTypeToTs(bodySchema[1], schemas),
                                              afterResponse, schemas)
                ELSE afterResponse
         IN EndpointTypesUsed(Tail(endpoints), schemas, afterBody)

\* the longest prefix of word characters: the group (\w+) of a match
RECURSIVE WordPrefix(_)
WordPrefix(str) ==
    IF str = <<>> \/ ~IsWordChar(Head(str)) THEN <<>>
    ELSE <<Head(str)>> \o WordPrefix(Tail(str))

\* the type parts of the properties of a parameter interface: of each piece
\* that ends at a ';', what follows its first ':'
InterfacePropertyTypes(interfaceCode) ==
    LET body == SubSeq(interfaceCode, 5, Len(interfaceCode) - 1)
        pieces == SelectSeq(Split(body, Kw(";")), LAMBDA piece : Includes(piece, Kw(":")))
    IN [i \in 1..Len(pieces) |->
            SubSeq(pieces[i], IndexOf(pieces[i], Kw(":")) + 1, Len(pieces[i]))]

\* the loop over allParamInterfaces of generateReactHooks: the interface name
\* and the type names of its properties are added to hookTypesUsed
RECURSIVE InterfaceTypesUsed(_, _, _)
InterfaceTypesUsed(interfaces, schemas, typeSet) ==
    IF interfaces = <<>> THEN typeSet
    ELSE LET interfaceCode == Head(interfaces)
             name == WordPrefix(interfaceCode[3])
             withName == IF name # <<>> THEN SetAdd(typeSet, name) ELSE typeSet
         IN InterfaceTypesUsed(Tail(interfaces), schemas,
                ExtractFromParts(InterfacePropertyTypes(interfaceCode), withName, schemas))

\* fullHooksContent.includes(needle) for a needle of adjacent tokens
IncludesTokens(text, needle) ==
    \E i \in 1..(Len(text) - Len(needle) + 1) : SubSeq(text, i, i + Len(needle) - 1) = needle

\* a word boundary \b lies between the characters k and k+1 of a token; the
\* token's ends count as non-word characters
BoundaryAfter(token, k) ==
    (k >= 1 /\ IsWordChar(token[k])) # (k + 1 <= Len(token) /\ IsWordChar(token[k + 1]))

\* new RegExp(`\\b${type}\\b`).test(text)
WordOccurs(type, text) ==
    \E t \in 1..Len(text) :
        \E i \in 1..(Len(text[t]) - Len(type) + 1) :
            /\ SubSeq(text[t], i, i + Len(type) - 1) = type
            /\ BoundaryAfter(text[t], i - 1)
            /\ BoundaryAfter(text[t], i + Len(type) - 1)

\* the analysis of fullHooksContent: the react-query functions in use, sorted
UsedReactQueryFunctions(fullHooksContent) ==
    (IF IncludesTokens(fullHooksContent, <<Kw("useMutation"), Kw("(")>>)
     THEN <<"useMutation">> ELSE <<>>)
    \o (IF IncludesTokens(fullHooksContent, <<Kw("useQuery"), Kw("(")>>)
        THEN <<"useQuery">> ELSE <<>>)
    \o (IF \/ IncludesTokens(fullHooksContent, <<Kw("useQueryClient"), Kw("("), Kw(")")>>)
           \/ IncludesTokens(fullHooksContent, <<Kw("queryClient"), Kw(".")>>)
        THEN <<"useQueryClient">> ELSE <<>>)

AllReactQueryFunctions == <<"useQuery", "useMutation", "useQueryClient">>

\* the console.error calls of generateReactQueryHook for a group
HookErrors(endpoints, templateReadable) ==
    IF templateReadable THEN <<>> ELSE [i \in 1..Len(endpoints) |-> TemplateReadError]

\* console.error(`Error compiling template ${templatePath}:`, error) of compileTemplate
TemplateCompileError == <<Kw("error"), Kw("Error compiling template")>>

\* console.warn(`Failed to compile hooks template: ${templatePaths.hooks}`, error)
TemplateCompileWarning == <<Kw("warn"), Kw("Failed to compile hooks template")>>

\* generateTypeDefinitions(swaggerDoc)
generateTypeDefinitions(swaggerDoc) ==
    IF ~(Has(swaggerDoc, "components") /\ Has(swaggerDoc.components, "schemas")) THEN <<>>
    ELSE <<Kw("//"), Kw("Auto-generated TypeScript types from Swagger schema")>>
         \o TypeDefinitions(Names(swaggerDoc.components.schemas),
                            swaggerDoc.components.schemas)

----------------------------------------------------------------------------
(* The documents of the generation runs *)

\* endpoints of one document
MaxEndpoints == 2

Admin == <<"A","d","m","i","n">>
PathA == <<"/","a">>
PathM == <<"/","m">>
IdListUsers == <<"l","i","s","t","U","s","e","r","s">>
IdDeleteUser == <<"d","e","l","e","t","e","U","s","e","r">>

Endpoint(path, method, endpointInfo) ==
    [path |-> path, method |-> method, endpointInfo |-> endpointInfo]

\* GET /users/{id}, tagged User, required path parameter id, returns User
GetUserById ==
    Endpoint(PathUsersId, Get,
        [tags |-> <<User>>, parameters |-> <<ParamId(TRUE)>>,
         responses |-> <<ResponseOf("200", RefTo(User))>>])

GetUserNamed ==
    Endpoint(PathUsersId, Get,
        [tags |-> <<User>>, operationId |-> IdUserControllerGetUser,
         parameters |-> <<ParamId(TRUE)>>,
         responses |-> <<ResponseOf("200", RefTo(User))>>])

CreateUser ==
    Endpoint(PathUsers, Post,
        [tags |-> <<User>>, operationId |-> IdCreateUser,
         requestBody |-> [content |-> JsonContent(RefTo(User))],
         responses |-> <<ResponseNoContent("400"), ResponseOf("201", RefTo(User))>>])

ListUsers ==
    Endpoint(PathUsers, GetUpper,
        [tags |-> <<User>>, operationId |-> IdListUsers, parameters |-> <<ParamQuery>>,
         responses |-> <<ResponseOf("200", [type |-> "array", items |-> RefTo(User)])>>])

\* an untagged endpoint whose response is an inline object that names User
GetProfiles ==
    Endpoint(PathProfiles, Get,
        [responses |->
            <<ResponseOf("200", [type |-> "object",
                                 properties |-> <<Entry(PropOwner, RefTo(User))>>])>>])

DeleteUser ==
    Endpoint(PathUsersId, Delete,
        [tags |-> <<Admin>>, operationId |-> IdDeleteUser,
         parameters |-> <<ParamId(TRUE)>>,
         responses |-> <<ResponseNoContent("204")>>])

\* an endpoint whose query parameter has a schema of the registry as its type
FindUsers ==
    Endpoint(PathUsers, Get,
        [tags |-> <<User>>, operationId |-> <<"f","i","n","d","U","s","e","r","s">>,
         parameters |-> <<[name |-> <<"f","i","l","t","e","r">>, in |-> "query",
                           schema |-> RefTo(User)]>>,
         responses |-> <<ResponseNoContent("204")>>])

\* an endpoint whose tag is the name of a property of Object.prototype
PostA ==
    Endpoint(PathA, Post,
        [tags |-> <<<<"c","o","n","s","t","r","u","c","t","o","r">>>>,
         responses |-> <<ResponseNoContent("204")>>])

GetA ==
    Endpoint(PathA, Get, [responses |-> <<ResponseOf("200", RefTo(NameA))>>])

\* an endpoint whose response names a schema that no registry has
GetMissing ==
    Endpoint(PathM, Get,
        [tags |-> <<User>>, responses |-> <<ResponseOf("200", RefTo(Missing))>>])

PutProfile ==
    Endpoint(PathProfiles, Put,
        [tags |-> <<Profile>>,
         requestBody |-> [content |-> JsonContent([oneOf |-> <<RefTo(User), RefTo(Profile)>>])],
         responses |->
            <<ResponseOf("200",
                [allOf |-> <<RefTo(User),
                             [type |-> "object",
                              properties |-> <<Entry(PropName, StringSchema)>>]>>])>>])

Endpoints ==
    {GetUserById, GetUserNamed, CreateUser, ListUsers, GetProfiles, DeleteUser, GetA,
     GetMissing, PutProfile, PostA, FindUsers}

ProfileSchema ==
    [type |-> "object",
     properties |-> <<Entry(PropOwner, RefTo(User))>>,
     required |-> <<PropOwner>>]

ProfileRegistry == <<Entry(Profile, ProfileSchema), Entry(User, UserSchema)>>

\* a registry in which the property owner of Profile holds null
MalformedRegistry ==
    <<Entry(User, UserSchema),
      Entry(Profile, [type |-> "object", properties |-> <<Entry(PropOwner, Null)>>])>>

\* A and B refer to each other; User stands apart
CyclicRegistry ==
    <<Entry(NameA, SchemaWithEdge("property", NameB)),
      Entry(NameB, SchemaWithEdge("items", NameA)),
      Entry(User, UserSchema)>>

\* the paths object of a document that declares these endpoints in this order
RECURSIVE PathsOf(_, _)
PathsOf(endpoints, paths) ==
    IF endpoints = <<>> THEN paths
    ELSE LET e == Head(endpoints)
             m == [method |-> e.method, endpointInfo |-> e.endpointInfo]
             i == IF \E k \in 1..Len(paths) : paths[k].path = e.path
                  THEN CHOOSE k \in 1..Len(paths) : paths[k].path = e.path ELSE 0
         IN PathsOf(Tail(endpoints),
                    IF i = 0 THEN Append(paths, [path |-> e.path, methods |-> <<m>>])
                    ELSE [paths EXCEPT ![i].methods = Append(@, m)])

\* lists of endpoints in which no path declares a method twice
EndpointLists ==
    {es \in SeqsUpTo(Endpoints, MaxEndpoints) :
        \A i, j \in 1..Len(es) :
            (es[i].path = es[j].path /\ es[i].method = es[j].method) => i = j}

\* what a document has under `components`: one of four registries, an object
\* without `schemas`, or nothing
ComponentChoices == {"user", "profile", "cyclic", "malformed", "noSchemas", "noComponents"}

ComponentsOf(choice) ==
    CASE choice = "user" -> [schemas |-> UserRegistry]
      [] choice = "profile" -> [schemas |-> ProfileRegistry]
      [] choice = "cyclic" -> [schemas |-> CyclicRegistry]
      [] choice = "malformed" -> [schemas |-> MalformedRegistry]
      [] OTHER -> <<>>

DocOf(fields, endpoints, choice) ==
    [f \in fields |->
        CASE f = "info" -> Info
          [] f = "paths" -> PathsOf(endpoints, <<>>)
          [] OTHER -> ComponentsOf(choice)]

Docs ==
    {DocOf({"info", "paths"} \cup (IF c = "noComponents" THEN {} ELSE {"components"}), es, c) :
        es \in EndpointLists, c \in ComponentChoices}
    \cup {DocOf({"info"} \cup (IF c = "noComponents" THEN {} ELSE {"components"}), <<>>, c) :
            c \in ComponentChoices}

\* the templates on disk: the hook template can be read or not; no hooks
\* template is passed, or one that fails to compile
Templates == {[hook |-> readable, hooks |-> given] :
                readable \in BOOLEAN, given \in {"none", "fails"}}

------------------------------------------------------------

----------------------------------------------------------------------------
(* The generation runs *)

Init ==
    /\ pc = "idle"
    /\ api = "none"
    /\ doc \in Docs
    /\ tmpl \in Templates
    /\ Unused({"suspended", "groupVars", "endpointsByTag", "tagIdx", "roots", "result", "changed", "passes",
               "out", "thrown", "console", "run", "prevOut", "arg", "ret", "ioVars"})

\* an exception leaves the call: the caller receives no artifact
Raise(error) ==
    /\ pc' = "error"
    /\ thrown' = error
    /\ out' = <<>>

\* the tag group that the forEach over endpointsByTag is at
Group == endpointsByTag[tagIdx]

\* the start of generateReactHooks / generateHandlebarsResources: the grouping
\* of the endpoints by tag, which reads Object.entries(swaggerDoc.paths)
StartGeneration(entryPoint) ==
    /\ pc = "idle"
    /\ api \in {"none", entryPoint}
    /\ api' = entryPoint
    /\ out' = <<>>
    /\ tagIdx' = 1
    /\ IF Has(doc, "paths") /\ FirstPushThrows(EndpointsOf(doc.paths)) = 0
       THEN /\ endpointsByTag' = PushByTag(NewEndpointsByTag(endpointsByTag),
                                           EndpointsOf(doc.paths))
            /\ pc' = IF endpointsByTag' = <<>> THEN "returned" ELSE "select"
            /\ thrown' = thrown
       ELSE IF Has(doc, "paths")
       THEN /\ endpointsByTag' =
                    PushByTag(NewEndpointsByTag(endpointsByTag),
                              SubSeq(EndpointsOf(doc.paths), 1,
                                     FirstPushThrows(EndpointsOf(doc.paths)) - 1))
            /\ pc' = "error"
            /\ thrown' = "TypeError"
       ELSE /\ endpointsByTag' = NewEndpointsByTag(endpointsByTag)
            /\ pc' = "error"
            /\ thrown' = "TypeError"
    /\ UNCHANGED ioVars
    /\ UNCHANGED suspended
    /\ UNCHANGED <<doc, tmpl, roots, result, changed, passes, groupVars, console, run,
                   prevOut, arg, ret>>

CallGenerateReactHooks == StartGeneration("generateReactHooks")

CallGenerateHandlebarsResources == StartGeneration("generateHandlebarsResources")

\* the start of an iteration over endpointsByTag: directlyUsedSchemas, and the
\* call of findAllReferencedSchemas on it (result = new Set(initialSchemas),
\* changed = true); the texts of the group start empty
SelectSchemas ==
    /\ pc = "select"
    /\ roots' = DirectlyUsedSchemas(Group.endpoints, Schemas(doc))
    /\ result' = DirectlyUsedSchemas(Group.endpoints, Schemas(doc))
    /\ changed' = TRUE
    /\ passes' = 0
    /\ typesContent' = <<>>
    /\ hookTypesUsed' = <<>>
    /\ allHookContents' = <<>>
    /\ allParamInterfaces' = <<>>
    /\ pc' = "closure"
    /\ UNCHANGED ioVars
    /\ UNCHANGED suspended
    /\ UNCHANGED <<api, doc, tmpl, endpointsByTag, tagIdx, out, thrown,
                   console, run, prevOut, arg, ret>>

\* the definitions of the needed schemas; generateReactHooks starts the text
\* with a header line and renders the hooks next, generateHandlebarsResources
\* has no header and generates the parameter interfaces next
EmitTypes ==
    /\ pc = "types"
    /\ IF TypeDefinitionsThrow(result, Schemas(doc))
       THEN Raise("TypeError") /\ typesContent' = typesContent
       ELSE /\ typesContent' = (IF api = "generateReactHooks"
                                THEN HeaderLine(Group.tag, "Types") ELSE <<>>)
                               \o TypeDefinitions(result, Schemas(doc))
            /\ pc' = IF api = "generateReactHooks" THEN "hooks" ELSE "params"
            /\ UNCHANGED <<out, thrown>>
    /\ UNCHANGED ioVars
    /\ UNCHANGED suspended
    /\ UNCHANGED <<api, doc, tmpl, endpointsByTag, tagIdx, roots, result, changed, passes,
                   hookTypesUsed, allHookContents, allParamInterfaces,
                   console, run, prevOut, arg, ret>>

\* the loop that renders the hook of every endpoint of the group; that of
\* generateReactHooks collects the type names of the response and body types
EmitHooks ==
    /\ pc = "hooks"
    /\ IF HookContentsThrow(Group.endpoints)
       THEN Raise("TypeError") /\ UNCHANGED <<allHookContents, hookTypesUsed, console>>
       ELSE /\ allHookContents' = HookContents(Group.endpoints, Schemas(doc), tmpl.hook)
            /\ hookTypesUsed' = IF api = "generateReactHooks"
                                THEN EndpointTypesUsed(Group.endpoints, Schemas(doc),
                                                       hookTypesUsed)
                                ELSE hookTypesUsed
            /\ console' = console \o HookErrors(Group.endpoints, tmpl.hook)
            /\ pc' = IF api = "generateReactHooks" THEN "params" ELSE "store"
            /\ UNCHANGED <<out, thrown>>
    /\ UNCHANGED ioVars
    /\ UNCHANGED suspended
    /\ UNCHANGED <<api, doc, tmpl, endpointsByTag, tagIdx, roots, result, changed, passes,
                   typesContent, allParamInterfaces, run, prevOut, arg, ret>>

\* the loop that generates the parameter interfaces of the group; in
\* generateReactHooks their names and property types join hookTypesUsed
EmitParamInterfaces ==
    /\ pc = "params"
    /\ IF ParamInterfacesThrow(Group.endpoints)
       THEN Raise("TypeError") /\ UNCHANGED <<allParamInterfaces, hookTypesUsed>>
       ELSE /\ allParamInterfaces' = ParamInterfaces(Group.endpoints, Schemas(doc), <<>>)
            /\ hookTypesUsed' = IF api = "generateReactHooks"
                                THEN InterfaceTypesUsed(allParamInterfaces', Schemas(doc),
                                                        hookTypesUsed)
                                ELSE hookTypesUsed
            /\ pc' = IF api = "generateReactHooks" THEN "store" ELSE "hooks"
            /\ UNCHANGED <<out, thrown>>
    /\ UNCHANGED ioVars
    /\ UNCHANGED suspended
    /\ UNCHANGED <<api, doc, tmpl, endpointsByTag, tagIdx, roots, result, changed, passes,
                   typesContent, allHookContents, console, run, prevOut,
                   arg, ret>>

\* fullHooksContent of generateReactHooks: every import, then the hooks
FullHooksContent(tag, typeNames, hookContents) ==
    HeaderLine(tag, "Hooks") \o ReactQueryImport(AllReactQueryFunctions) \o AxiosImport
    \o (IF typeNames # <<>> THEN TypeImport(typeNames, tag) ELSE <<>>)
    \o Flatten(hookContents)

\* hooksContent of generateReactHooks, rebuilt with the imports found in use
PrunedHooksContent(tag, typeNames, hookContents) ==
    LET reactQueryImports ==
            UsedReactQueryFunctions(FullHooksContent(tag, typeNames, hookContents))
        usedTypes ==
            SelectSeq(typeNames,
                      LAMBDA type : WordOccurs(type,
                                        FullHooksContent(tag, typeNames, hookContents)))
    IN HeaderLine(tag, "Hooks")
       \o (IF reactQueryImports # <<>> THEN ReactQueryImport(reactQueryImports) ELSE <<>>)
       \o AxiosImport
       \o (IF usedTypes # <<>> THEN TypeImport(usedTypes, tag) ELSE <<>>)
       \o Flatten(hookContents)

\* a catch block that substitutes nothing: hooksContent stays ''
EmptyHooksContent(tag, typeNames, paramInterfaces, hooks) == <<>>

\* hooksContent written by the catch block around compileTemplate
FallbackHooksContent(tag, typeNames, paramInterfaces, hooks) ==
    HeaderLine(tag, "Hooks")
    \o ReactQueryImport(<<"useQuery", "useMutation", "useQueryClient">>)
    \o AxiosImport
    \o (IF typeNames # <<>> THEN TypeImport(typeNames, tag) ELSE <<>>)
    \o Flatten(paramInterfaces)
    \o Flatten(hooks)

\* hooksContent of the built-in renderer of generateHandlebarsResources
DefaultHooksContent(tag, typeNames, paramInterfaces, hooks) ==
    HeaderLine(tag, "Hooks") \o ReactQueryImport(AllReactQueryFunctions) \o AxiosImport
    \o (IF typeNames # <<>> THEN TypeImport(typeNames, tag) ELSE <<>>)
    \o Flatten(paramInterfaces)
    \o Flatten(hooks)

\* the end of an iteration of generateReactHooks: the imports are pruned, the
\* parameter interfaces join the types text, hooksByTag.set(tag, ...); after
\* the last group the map is returned
StoreHooks ==
    /\ pc = "store"
    /\ api = "generateReactHooks"
    /\ out' = MapSet(out, [tag |-> Group.tag,
                           hooks |-> PrunedHooksContent(Group.tag, hookTypesUsed,
                                                        allHookContents),
                           types |-> typesContent \o Flatten(allParamInterfaces)])
    /\ tagIdx' = tagIdx + 1
    /\ pc' = IF tagIdx = Len(endpointsByTag) THEN "returned" ELSE "select"
    /\ UNCHANGED ioVars
    /\ UNCHANGED suspended
    /\ UNCHANGED <<api, doc, tmpl, endpointsByTag, roots, result, changed, passes, groupVars,
                   thrown, console, run, prevOut, arg, ret>>

\* the end of an iteration of generateHandlebarsResources: the hooks template,
\* when one is given, fails to compile: compileTemplate logs the error and
\* rethrows, the catch block logs a warning and writes the text itself; with
\* no template the built-in renderer writes it; resourcesByTag.set(tag, ...)
StoreResources ==
    /\ pc = "store"
    /\ api = "generateHandlebarsResources"
    /\ out' = MapSet(out, [tag |-> Group.tag,
                           hooks |-> IF tmpl.hooks = "fails"
                                     THEN FallbackHooksContent(Group.tag, result,
                                              allParamInterfaces, allHookContents)
                                     ELSE DefaultHooksContent(Group.tag, result,
                                              allParamInterfaces, allHookContents),
                           types |-> typesContent])
    /\ console' = IF tmpl.hooks = "fails"
                  THEN console \o <<TemplateCompileError, TemplateCompileWarning>>
                  ELSE console
    /\ tagIdx' = tagIdx + 1
    /\ pc' = IF tagIdx = Len(endpointsByTag) THEN "returned" ELSE "select"
    /\ UNCHANGED ioVars
    /\ UNCHANGED suspended
    /\ UNCHANGED <<api, doc, tmpl, endpointsByTag, roots, result, changed, passes, groupVars,
                   thrown, run, prevOut, arg, ret>>

CallGenerateTypeDefinitions ==
    /\ pc = "idle"
    /\ api \in {"none", "generateTypeDefinitions"}
    /\ api' = "generateTypeDefinitions"
    /\ IF Has(doc, "components") /\ Has(doc.components, "schemas")
          /\ TypeDefinitionsThrow(Names(Schemas(doc)), Schemas(doc))
       THEN Raise("TypeError")
       ELSE /\ out' = generateTypeDefinitions(doc)
            /\ pc' = "returned"
            /\ thrown' = thrown
    /\ UNCHANGED ioVars
    /\ UNCHANGED suspended
    /\ UNCHANGED <<doc, tmpl, endpointsByTag, tagIdx, roots, result, changed, passes,
                   groupVars, console, run, prevOut, arg, ret>>

\* the caller keeps what the run returned and runs the same entry point on the
\* same document again
Rerun ==
    /\ pc = "returned"
    /\ run < MaxRuns
    /\ prevOut' = out
    /\ run' = run + 1
    /\ pc' = "idle"
    /\ UNCHANGED ioVars
    /\ UNCHANGED suspended
    /\ UNCHANGED <<api, doc, tmpl, endpointsByTag, tagIdx, roots, result, changed, passes,
                   groupVars, out, thrown, console, arg, ret>>

\* the caller of generateHandlebarsResources, after a call with a hooks
\* template that failed to compile, calls again on the same document with no
\* template path; it keeps the result and the template argument of the first call
RetryWithoutTemplate ==
    /\ pc = "returned"
    /\ api = "generateHandlebarsResources"
    /\ tmpl.hooks = "fails"
    /\ run < MaxRuns
    /\ prevOut' = out
    /\ arg' = [templatePaths |-> tmpl.hooks]
    /\ tmpl' = [tmpl EXCEPT !.hooks = "none"]
    /\ run' = run + 1
    /\ pc' = "idle"
    /\ UNCHANGED ioVars
    /\ UNCHANGED suspended
    /\ UNCHANGED <<api, doc, endpointsByTag, tagIdx, roots, result, changed, passes,
                   groupVars, out, thrown, console, ret>>

Next ==
    \/ CallGenerateReactHooks
    \/ CallGenerateHandlebarsResources
    \/ CallGenerateTypeDefinitions
    \/ SelectSchemas
    \/ ClosurePass
    \/ EmitTypes
    \/ EmitHooks
    \/ EmitParamInterfaces
    \/ StoreHooks
    \/ StoreResources
    \/ Rerun
    \/ RetryWithoutTemplate

Spec == Init /\ [][Next]_vars

\* the document declares exactly these endpoints, in this order
HasEndpoints(d, endpoints) == Has(d, "paths") /\ EndpointsOf(d.paths) = endpoints

\* the runs over the registry in which A and B refer to each other; the code is
\* sequential, so a call that has started takes its next step
InitCyclic == Init /\ Schemas(doc) = CyclicRegistry /\ HasEndpoints(doc, <<GetA>>)

SpecCyclic == InitCyclic /\ [][Next]_vars /\ WF_vars(Next)

----------------------------------------------------------------------------
(* Properties of the generation runs *)

HookEntryPoints == {"generateReactHooks", "generateHandlebarsResources"}

\* C2: a second run of generateReactHooks or generateHandlebarsResources over
\* the same document returns the same artifact map as the first: the same tags
\* in the same order, and for every tag the same types text and bindings text.
C2_Idempotent ==
    (run > 1 /\ pc = "returned" /\ api \in HookEntryPoints) => out = prevOut

\* a second run has returned a map of two tag groups
C2_Witness ==
    /\ run = 2 /\ pc = "returned" /\ api = "generateReactHooks"
    /\ Len(out) = 2 /\ Len(prevOut) = 2
    /\ out[1].hooks # out[2].hooks

\* the registry in which A and B refer to each other, used by GET /a alone
CyclicInput == Schemas(doc) = CyclicRegistry /\ HasEndpoints(doc, <<GetA>>)

\* export interface A { id?: number; owner?: B; }   export type B = A[];
CyclicDefinitions ==
    <<Kw("export"), Kw("interface"), NameA, Kw("{"),
      PropId, Kw("?"), Kw(":"), Kw("number"), Kw(";"),
      PropOwner, Kw("?"), Kw(":"), NameB, Kw(";"), Kw("}"),
      Kw("export"), Kw("type"), NameB, Kw("="), NameA, Kw("[]"), Kw(";")>>

\* what a run over the cyclic registry returns: the closure of {A} is A and B;
\* the definition of each names the other and expands nothing
CyclicResolved ==
    /\ api \in HookEntryPoints =>
        /\ roots = <<NameA>>
        /\ result = <<NameA, NameB>>
        /\ Len(out) = 1
        /\ out[1].types = (IF api = "generateReactHooks"
                           THEN HeaderLine(General, "Types") ELSE <<>>) \o CyclicDefinitions
    /\ api = "generateTypeDefinitions" =>
        /\ IncludesTokens(out, CyclicDefinitions)
        /\ CountToken(out, NameA) = 2 /\ CountToken(out, NameB) = 2

\* C3: when A references B and B references A through $ref, every run over the
\* registry returns; the definitions of A and B name each other without
\* expanding, and the closure started from {A} is exactly A, B.
C3_CycleSafety == (pc = "idle" /\ CyclicInput) ~> (pc = "returned" /\ CyclicResolved)

\* generateReactHooks has returned for the cyclic registry
C3_Witness ==
    /\ pc = "returned" /\ api = "generateReactHooks" /\ CyclicInput
    /\ result = <<NameA, NameB>>
    /\ IncludesTokens(out[1].types, CyclicDefinitions)

\* the number of places at which the tokens of needle occur in text
CountTokens(text, needle) ==
    Cardinality({i \in 1..(Len(text) - Len(needle) + 1) :
                    SubSeq(text, i, i + Len(needle) - 1) = needle})

\* the documents of the end-to-end scenario: schema User, and GET /users/{id}
\* tagged User with the required path parameter id, with or without an operationId
ScenarioDocs ==
    {DocOf({"info", "paths", "components"}, <<e>>, "user") : e \in {GetUserById, GetUserNamed}}

\* export interface User { id: number; name: string; email?: string | null; }
ScenarioUserDefinition ==
    <<Kw("export"), Kw("interface"), User, Kw("{"),
      PropId, Kw(":"), Kw("number"), Kw(";"),
      PropName, Kw(":"), Kw("string"), Kw(";"),
      PropEmail, Kw("?"), Kw(":"), Kw("string"), Bar, TsNull, Kw(";"), Kw("}")>>

\* C6: for the scenario document the artifact of tag User holds exactly one type
\* definition, that of User with id and name required and email optional and
\* nullable; exactly one parameter type, with id required; and exactly one
\* binding, read-style, that takes the parameter type and returns User.
C6_EndToEnd ==
    (pc = "returned" /\ api \in HookEntryPoints /\ tmpl.hook /\ doc \in ScenarioDocs) =>
        /\ Len(out) = 1
        /\ out[1].tag = User
        /\ LET text == out[1].types \o out[1].hooks
               i == IndexOf(text, Kw("interface"))
               j == LastIndexOf(text, Kw("interface"))
               paramType == text[j + 1]
           IN /\ CountToken(text, Kw("interface")) = 2
              /\ CountToken(text, Kw("type")) = 1
              /\ CountTokens(text, ScenarioUserDefinition) = 1
              /\ text[i + 1] = User
              /\ paramType # User
              /\ CountTokens(text, <<Kw("export"), Kw("interface"), paramType, Kw("{"),
                                     PropId, Kw(":"), Kw("number"), Kw(";"), Kw("}")>>) = 1
              /\ CountTokens(text, <<Kw("export"), Kw("const")>>) = 1
              /\ CountTokens(text, <<Kw("="), Kw("("), Kw("params"), Kw(":"), paramType,
                                     Kw(")"), Kw("=>"), Kw("{"), Kw("return"),
                                     Kw("useQuery"), Kw("(")>>) = 1
              /\ CountTokens(text, <<Kw("axios"), Kw("."), Kw("get"), Kw("<"), User,
                                     Kw(">")>>) = 1
              /\ ~IncludesTokens(text, <<Kw("useMutation"), Kw("(")>>)
        /\ api = "generateReactHooks" =>
              /\ IncludesTokens(out[1].types, ScenarioUserDefinition)
              /\ CountToken(out[1].types, Kw("interface")) = 2

\* generateReactHooks has returned the artifact of the scenario document
C6_Witness ==
    /\ pc = "returned" /\ api = "generateReactHooks" /\ tmpl.hook
    /\ doc = DocOf({"info", "paths", "components"}, <<GetUserById>>, "user")
    /\ IncludesTokens(out[1].types, ScenarioUserDefinition)
    /\ IncludesTokens(out[1].hooks, <<Kw("axios"), Kw("."), Kw("get"), Kw("<"), User, Kw(">")>>)

\* the bindings text names sym in the list of its react-query import
ImportsSymbol(text, sym) ==
    \E i \in 1..(Len(text) - 1) :
        /\ text[i] = Kw(sym)
        /\ text[i + 1] \in {Kw(","), Kw("}")}
        /\ \E j \in 1..(i - 1) :
            /\ text[j] = Kw("import") /\ text[j + 1] = Kw("{")
            /\ \A k \in (j + 2)..i : text[k] # Kw("}")

\* some binding of the text calls sym
InvokesSymbol(text, sym) == IncludesTokens(text, <<Kw(sym), Kw("(")>>)

\* C7: the bindings text of every tag group imports useMutation or
\* useQueryClient only if some binding of the group invokes it, for
\* generateReactHooks and for the built-in renderer of generateHandlebarsResources.
C7_ImportsOnlyInvoked ==
    (api \in HookEntryPoints) =>
        \A i \in 1..Len(out) : \A sym \in {"useMutation", "useQueryClient"} :
            ImportsSymbol(out[i].hooks, sym) => InvokesSymbol(out[i].hooks, sym)

\* the names listed by the type import of a bindings text
TypeImportNames(text) ==
    IF IncludesTokens(text, <<Kw("import"), Kw("type"), Kw("{")>>)
    THEN LET start == CHOOSE i \in 1..Len(text) :
                        SubSeq(text, i, i + 2) = <<Kw("import"), Kw("type"), Kw("{")>>
             end == CHOOSE j \in (start + 3)..Len(text) :
                        text[j] = Kw("}") /\ \A k \in (start + 3)..(j - 1) : text[k] # Kw("}")
         IN {text[k] : k \in (start + 3)..(end - 1)} \ {Kw(",")}
    ELSE {}

\* the registry names that occur in the resolved type of a schema
RegistryNamesIn(schemaList, schemas) ==
    IF schemaList = <<>> THEN {}
    ELSE {t \in Range(convertTypeToTs(schemaList[1], schemas)) : InRegistry(schemas, t)}

\* C8: in every tag group returned by generateReactHooks, every registry
\* schema name that occurs in the resolved response type or request body type
\* of a binding is listed in the type import of the group's bindings text.
C8_TypeImportComplete ==
    (api = "generateReactHooks") =>
        \A i \in 1..Len(out) : \A e \in 1..Len(endpointsByTag[i].endpoints) :
            LET endpoint == endpointsByTag[i].endpoints[e]
            IN RegistryNamesIn(ResponseSchema(endpoint.endpointInfo), Schemas(doc))
               \cup RegistryNamesIn(BodySchema(endpoint.method, endpoint.endpointInfo),
                                    Schemas(doc))
                    \subseteq TypeImportNames(out[i].hooks)

\* C9: a document without `paths` or without `components.schemas` raises no
\* error; without `paths` the artifact map is empty, and without
\* `components.schemas` generateTypeDefinitions returns the empty text.
C9_MissingCollectionsAreEmpty ==
    (pc \in {"returned", "error"}
     /\ (~Has(doc, "paths") \/ ~(Has(doc, "components") /\ Has(doc.components, "schemas")))) =>
        /\ thrown = NoError
        /\ (api \in HookEntryPoints /\ ~Has(doc, "paths")) => out = <<>>
        /\ (api = "generateTypeDefinitions"
            /\ ~(Has(doc, "components") /\ Has(doc.components, "schemas"))) => out = <<>>

\* the registry names, among these, whose definition can be generated
WellFormed(names, schemas) ==
    SelectSeq(names, LAMBDA n : /\ InRegistry(schemas, n)
                                /\ ~generateSingleTypeDefinitionThrows(Lookup(schemas, n)))

\* the text holds the definition of every one of these schemas
DefinesAll(text, names, schemas) ==
    \A k \in 1..Len(names) :
        IncludesTokens(text, generateSingleTypeDefinition(names[k],
                                                         Lookup(schemas, names[k]), schemas))

\* C11: a failure at one endpoint's binding or at one schema's definition (an
\* unreadable hook template, a null member or property) never aborts the
\* call: it raises nothing, every tag group still has its artifact with the
\* definition of every well-formed schema its endpoints name, and
\* generateTypeDefinitions still defines every well-formed schema.
C11_FailuresAreLocal ==
    (pc \in {"returned", "error"} /\ (api \in HookEntryPoints => Has(doc, "paths"))) =>
        /\ thrown = NoError
        /\ api \in HookEntryPoints =>
            /\ Len(out) = Len(endpointsByTag)
            /\ \A i \in 1..Len(out) :
                /\ out[i].tag = endpointsByTag[i].tag
                /\ out[i].hooks # <<>>
                /\ DefinesAll(out[i].types,
                              WellFormed(DirectlyUsedSchemas(endpointsByTag[i].endpoints,
                                                             Schemas(doc)), Schemas(doc)),
                              Schemas(doc))
        /\ (api = "generateTypeDefinitions"
            /\ Has(doc, "components") /\ Has(doc.components, "schemas")) =>
                DefinesAll(out, WellFormed(Names(Schemas(doc)), Schemas(doc)), Schemas(doc))

\* C12: when the hooks template fails to compile, generateHandlebarsResources
\* raises no error, and a second call on the same document with no template
\* path returns the same tags with the same bindings text and types text.
C12_TemplateFallback ==
    /\ (api = "generateHandlebarsResources" /\ pc = "returned"
        /\ arg = [templatePaths |-> "fails"]) => out = prevOut
    /\ (api = "generateHandlebarsResources" /\ tmpl.hooks = "fails"
        /\ Includes(console, TemplateCompileWarning)) =>
            (thrown = NoError \/ (pc = "error" /\ TypeDefinitionsThrow(result, Schemas(doc))))

\* both calls have returned two tag groups; the first logged the failure
C12_Witness ==
    /\ api = "generateHandlebarsResources" /\ pc = "returned" /\ run = 2
    /\ arg = [templatePaths |-> "fails"] /\ tmpl.hooks = "none"
    /\ Includes(console, TemplateCompileWarning)
    /\ Len(prevOut) = 2 /\ Len(out) = 2
    /\ IncludesTokens(out[1].hooks, <<Kw("useMutation"), Kw(",")>>)

----------------------------------------------------------------------------
(* Document retrieval: fetchSwaggerJSON, loadSwaggerFromFile *)

\* nesting depth of the JSON values a file or a response holds
MaxDepth == 2

\* JSON values: a string, or an object as the list of its members in order
JStr(chars) == [str |-> chars]
JObj(members) == [obj |-> members]
Member(key, value) == [key |-> key, value |-> value]

\* the tokens of a JSON text: punctuation, and string literals
Punct(c) == <<c>>
StrTok(chars) == <<"str", chars>>
IsStrTok(tok) == Len(tok) = 2 /\ tok[1] = "str"

\* JSON.stringify(value)
RECURSIVE Stringify(_)
Stringify(value) ==
    IF Has(value, "str") THEN <<StrTok(value.str)>>
    ELSE <<Punct("{")>>
         \o Join([i \in 1..Len(value.obj) |->
                    <<StrTok(value.obj[i].key), Punct(":")>>
                    \o Stringify(value.obj[i].value)], <<Punct(",")>>)
         \o <<Punct("}")>>

ParseFailure == [ok |-> FALSE]

\* the recursive descent of JSON.parse: a value at the head of the tokens, and
\* the tokens after it
RECURSIVE ParseValue(_)
RECURSIVE ParseMembers(_, _)
ParseValue(toks) ==
    IF toks = <<>> THEN ParseFailure
    ELSE IF IsStrTok(Head(toks))
    THEN [ok |-> TRUE, value |-> JStr(Head(toks)[2]), rest |-> Tail(toks)]
    ELSE IF Head(toks) = Punct("{")
    THEN (IF Len(toks) >= 2 /\ toks[2] = Punct("}")
          THEN [ok |-> TRUE, value |-> JObj(<<>>), rest |-> SubSeq(toks, 3, Len(toks))]
          ELSE ParseMembers(Tail(toks), <<>>))
    ELSE ParseFailure

\* the members of an object after its opening brace or after a comma
ParseMembers(toks, members) ==
    IF Len(toks) < 3 \/ ~IsStrTok(toks[1]) \/ toks[2] # Punct(":") THEN ParseFailure
    ELSE LET v == ParseValue(SubSeq(toks, 3, Len(toks)))
         IN IF ~v.ok \/ v.rest = <<>> THEN ParseFailure
            ELSE LET all == Append(members, Member(toks[1][2], v.value))
                 IN IF Head(v.rest) = Punct(",") THEN ParseMembers(Tail(v.rest), all)
                    ELSE IF Head(v.rest) = Punct("}")
                    THEN [ok |-> TRUE, value |-> JObj(all), rest |-> Tail(v.rest)]
                    ELSE ParseFailure

\* JSON.parse(text): the value, when the whole text is one value
JsonParse(text) ==
    LET r == ParseValue(text)
    IN IF r.ok /\ r.rest = <<>> THEN r ELSE ParseFailure

\* the JSON values of the model, by nesting depth
JsonKeys == {"info", "paths"}

RECURSIVE JsonValues(_)
JsonValues(d) ==
    IF d = 0 THEN {JStr("3.0.0"), JObj(<<>>)}
    ELSE JsonValues(d - 1)
         \cup {JObj(<<Member(k, v)>>) : k \in JsonKeys, v \in JsonValues(d - 1)}
         \cup {JObj(<<Member("info", v), Member("paths", w)>>) :
                    v \in JsonValues(d - 1), w \in JsonValues(0)}

\* the texts a file can hold: the text of a value, whole or cut short
JsonTexts ==
    UNION {{SubSeq(Stringify(v), 1, n) : n \in 0..Len(Stringify(v))} :
                v \in JsonValues(MaxDepth)}

\* what axios.get(url) settles with: a response, an Error, or another thrown value
Thrown(message) == [isError |-> TRUE, message |-> message]
ThrownValue(text) == [isError |-> FALSE, text |-> text]

Responses ==
    {[settles |-> "resolved", data |-> v] : v \in JsonValues(MaxDepth)}
    \cup {[settles |-> "rejected", error |-> e] :
            e \in {Thrown("Network error"), Thrown("Request failed with status code 404"),
                   ThrownValue("timeout")}}

\* what the disk holds at filePath
Files == {[exists |-> FALSE]} \cup {[exists |-> TRUE, text |-> t] : t \in JsonTexts}

RetrievalTargets == {"https://api.example.com/swagger.json", "test-swagger.json"}

\* error.message of an Error, String(error) of any other thrown value
CauseOf(error) == IF error.isError THEN error.message ELSE error.text

\* an error that carries only its cause
Unwrapped(operation, target, cause) == [name |-> "Error", message |-> <<cause>>]

\* new Error(`Failed to ${operation} Swagger JSON from ${target}: ${cause}`)
Wrapped(operation, target, cause) ==
    [name |-> "Error",
     message |-> <<"Failed to ", operation, " Swagger JSON from ", target, ": ", cause>>]

InitRetrieve ==
    /\ pc = "ready"
    /\ api \in {"fetchSwaggerJSON", "loadSwaggerFromFile"}
    /\ arg \in RetrievalTargets
    /\ world \in (IF api = "fetchSwaggerJSON" THEN Responses ELSE Files)
    /\ calls = <<>>
    /\ doc = <<>>
    /\ Unused({"suspended", "groupVars", "tmpl", "endpointsByTag", "tagIdx", "roots", "result",
               "changed", "passes", "out", "thrown", "console", "run", "prevOut", "ret"})

\* fetchSwaggerJSON(url) up to its await: axios.get(url)
CallFetchSwaggerJSON ==
    /\ pc = "ready"
    /\ api = "fetchSwaggerJSON"
    /\ calls' = Append(calls, [fn |-> "axios.get", args |-> <<arg>>])
    /\ pc' = "awaiting"
    /\ UNCHANGED <<api, doc, tmpl, endpointsByTag, tagIdx, roots, result, changed, passes,
                   groupVars, out, thrown, console, run, prevOut, arg, ret, world, suspended>>

\* the promise settles: response.data is returned, or the catch block wraps
\* what was thrown
FetchSettles ==
    /\ pc = "awaiting"
    /\ IF world.settles = "resolved"
       THEN /\ ret' = world.data
            /\ pc' = "returned"
            /\ thrown' = thrown
       ELSE /\ thrown' = Wrapped("fetch", arg, CauseOf(world.error))
            /\ pc' = "error"
            /\ ret' = ret
    /\ UNCHANGED <<api, doc, tmpl, endpointsByTag, tagIdx, roots, result, changed, passes,
                   groupVars, out, console, run, prevOut, arg, ioVars, suspended>>

\* loadSwaggerFromFile(filePath): fs.readFileSync(filePath, 'utf8'), then
\* JSON.parse(jsonData); the catch block wraps the error of either
CallLoadSwaggerFromFile ==
    /\ pc = "ready"
    /\ api = "loadSwaggerFromFile"
    /\ calls' = Append(calls, [fn |-> "fs.readFileSync", args |-> <<arg, "utf8">>])
    /\ IF ~world.exists
       THEN /\ thrown' = Wrapped("load", arg, "ENOENT: no such file or directory")
            /\ pc' = "error"
            /\ ret' = ret
       ELSE IF ~JsonParse(world.text).ok
       THEN /\ thrown' = Wrapped("load", arg, "Unexpected end of JSON input")
            /\ pc' = "error"
            /\ ret' = ret
       ELSE /\ ret' = JsonParse(world.text).value
            /\ pc' = "returned"
            /\ thrown' = thrown
    /\ UNCHANGED <<api, doc, tmpl, endpointsByTag, tagIdx, roots, result, changed, passes,
                   groupVars, out, console, run, prevOut, arg, world, suspended>>

NextRetrieve ==
    \/ CallFetchSwaggerJSON
    \/ FetchSettles
    \/ CallLoadSwaggerFromFile

SpecRetrieve == InitRetrieve /\ [][NextRetrieve]_vars

\* the one call to the outside that a retrieval makes
RetrievalCall ==
    IF api = "fetchSwaggerJSON" THEN [fn |-> "axios.get", args |-> <<arg>>]
    ELSE [fn |-> "fs.readFileSync", args |-> <<arg, "utf8">>]

\* the retrieval can succeed: the response resolves, or the file holds the
\* whole text of a value
Retrievable ==
    IF api = "fetchSwaggerJSON" THEN world.settles = "resolved"
    ELSE world.exists /\ \E v \in JsonValues(MaxDepth) : world.text = Stringify(v)

\* C13: fetchSwaggerJSON and loadSwaggerFromFile make their retrieval call
\* exactly once. When the retrieval succeeds they return the retrieved document
\* unchanged (the response data; the value whose text the file holds). When it
\* fails they return nothing and raise an Error whose message is
\* 'Failed to fetch|load Swagger JSON from <target>: <cause>'.
C13_RetrieveOnce ==
    (pc \in {"returned", "error"}) =>
        /\ calls = <<RetrievalCall>>
        /\ (pc = "returned") = Retrievable
        /\ pc = "returned" =>
            /\ thrown = NoError
            /\ IF api = "fetchSwaggerJSON" THEN ret = world.data
               ELSE Stringify(ret) = world.text
        /\ pc = "error" =>
            /\ ret = <<>>
            /\ thrown.name = "Error"
            /\ thrown.message \in
                    {<<"Failed to ", (IF api = "fetchSwaggerJSON" THEN "fetch" ELSE "load"),
                       " Swagger JSON from ", arg, ": ", cause>> :
                        cause \in (IF api = "fetchSwaggerJSON" THEN {CauseOf(world.error)}
                                   ELSE {"ENOENT: no such file or directory",
                                         "Unexpected end of JSON input"})}

\* a file cut short was read once and the call raised the wrapped error
C13_Witness ==
    /\ pc = "error" /\ api = "loadSwaggerFromFile"
    /\ world.exists /\ Len(world.text) > 3
    /\ Len(calls) = 1
    /\ thrown.message = Wrapped("load", arg, "Unexpected end of JSON input").message

----------------------------------------------------------------------------
(* Grouping by tag *)

\* the first declared tag of an endpoint, General when it declares none
DeclaredTag(endpointInfo) ==
    IF Has(endpointInfo, "tags") /\ endpointInfo.tags # <<>>
    THEN endpointInfo.tags[1] ELSE General

\* the endpoints of a list that declare this tag, in the order of the list
WithTag(endpoints, tag) ==
    SelectSeq(endpoints, LAMBDA e : DeclaredTag(e.endpointInfo) = tag)

\* the grouping of a call is over: the groups are being processed, or the
\* call has ended
Grouped ==
    /\ api \in {"generateReactHooks", "generateHandlebarsResources"}
    /\ pc # "idle"
    /\ Has(doc, "paths")

\* the groups hold every endpoint of the document once, under its declared
\* tag, in document order
GroupsMatchDocument ==
    /\ \A e \in Range(EndpointsOf(doc.paths)) :
        Cardinality({<<i, j>> \in (1..Len(endpointsByTag)) \X (1..MaxEndpoints) :
                        /\ j <= Len(endpointsByTag[i].endpoints)
                        /\ endpointsByTag[i].endpoints[j] = e}) = 1
    /\ \A i \in 1..Len(endpointsByTag) :
        /\ endpointsByTag[i].endpoints # <<>>
        /\ endpointsByTag[i].endpoints = WithTag(EndpointsOf(doc.paths), endpointsByTag[i].tag)
        /\ \A k \in 1..Len(endpointsByTag) : endpointsByTag[k].tag = endpointsByTag[i].tag => k = i

\* C14: once generateReactHooks has grouped the endpoints, every endpoint
\* (path, method) of the document is in exactly one tag group, the group of its
\* first declared tag or of "General" when it declares none, and each group
\* holds its endpoints in document order.
C14_GroupedByFirstTag == Grouped => GroupsMatchDocument

\* the same, for documents in which no tag names a property of Object.prototype
GroupedUnlessInherited ==
    (Grouped /\ FirstPushThrows(EndpointsOf(doc.paths)) = 0) => GroupsMatchDocument

----------------------------------------------------------------------------
(* The tag groups processed in any order, one step of one group at a time *)

\* the locals of the iteration over the tag group being processed
Frame ==
    [pc |-> pc, roots |-> roots, result |-> result, changed |-> changed, passes |-> passes,
     typesContent |-> typesContent, hookTypesUsed |-> hookTypesUsed,
     allHookContents |-> allHookContents, allParamInterfaces |-> allParamInterfaces]

\* the tag groups that have no artifact in the map yet
Remaining(map) ==
    {i \in 1..Len(endpointsByTag) : IndexOfTag(map, endpointsByTag[i].tag) = 0}

IsSuspended(j) == \E s \in suspended : s.idx = j

\* the iteration over group j goes on where it was suspended, or starts
Resume(j) ==
    /\ tagIdx' = j
    /\ IF IsSuspended(j)
       THEN LET f == (CHOOSE s \in suspended : s.idx = j).frame
            IN /\ pc' = f.pc
               /\ roots' = f.roots
               /\ result' = f.result
               /\ changed' = f.changed
               /\ passes' = f.passes
               /\ typesContent' = f.typesContent
               /\ hookTypesUsed' = f.hookTypesUsed
               /\ allHookContents' = f.allHookContents
               /\ allParamInterfaces' = f.allParamInterfaces
       ELSE /\ pc' = "select"
            /\ UNCHANGED <<roots, result, changed, passes, groupVars>>

InGroup == pc \in {"select", "closure", "types", "hooks", "params", "store"}

\* the iteration over the current group is suspended between two of its
\* steps and that of another group runs
Yield ==
    /\ run > 1
    /\ InGroup
    /\ \E j \in Remaining(out) \ {tagIdx} :
        /\ Resume(j)
        /\ suspended' = {s \in suspended : s.idx # j}
                         \cup (IF pc = "select" THEN {}
                               ELSE {[idx |-> tagIdx, frame |-> Frame]})
    /\ UNCHANGED ioVars
    /\ UNCHANGED <<api, doc, tmpl, endpointsByTag, out, thrown, console, run, prevOut,
                   arg, ret>>

\* the first run over a document takes the groups in the order of
\* Object.entries(endpointsByTag)
StoreHooksInOrder == run = 1 /\ StoreHooks

\* hooksByTag.set(tag, ...) of a group, after which any group that has no
\* artifact yet goes on
StoreHooksAnyOrder ==
    /\ run > 1
    /\ pc = "store"
    /\ api = "generateReactHooks"
    /\ out' = MapSet(out, [tag |-> Group.tag,
                           hooks |-> PrunedHooksContent(Group.tag, hookTypesUsed,
                                                        allHookContents),
                           types |-> typesContent \o Flatten(allParamInterfaces)])
    /\ IF Remaining(out) \ {tagIdx} = {}
       THEN /\ pc' = "returned"
            /\ tagIdx' = Len(endpointsByTag) + 1
            /\ UNCHANGED <<roots, result, changed, passes, groupVars, suspended>>
       ELSE \E j \in Remaining(out) \ {tagIdx} :
            /\ Resume(j)
            /\ suspended' = {s \in suspended : s.idx # j}
    /\ UNCHANGED ioVars
    /\ UNCHANGED <<api, doc, tmpl, endpointsByTag, thrown, console, run, prevOut, arg, ret>>

\* documents whose endpoints fall into two tag groups
InitAnyOrder ==
    /\ Init
    /\ Has(doc, "paths")
    /\ Len(PushByTag(<<>>, EndpointsOf(doc.paths))) = 2

NextAnyOrder ==
    \/ CallGenerateReactHooks
    \/ SelectSchemas
    \/ ClosurePass
    \/ EmitTypes
    \/ EmitHooks
    \/ EmitParamInterfaces
    \/ StoreHooksInOrder
    \/ StoreHooksAnyOrder
    \/ Yield
    \/ Rerun

SpecAnyOrder == InitAnyOrder /\ [][NextAnyOrder]_vars

\* a step leaves the document (registry and endpoints), the grouped endpoint
\* descriptors and the artifacts already in the map as they are
StepKeepsInputs ==
    /\ doc' = doc
    /\ pc # "idle" => endpointsByTag' = endpointsByTag
    /\ (InGroup /\ pc' # "error") => Range(out) \subseteq Range(out')

\* C15: the artifact of a tag group depends only on the group and the
\* registry: a run that takes the groups in any order, one step of one group at
\* a time, returns for every tag the artifact that the run in document order
\* returned; and no step changes the document, the endpoint descriptors or an
\* artifact already stored for another group.
C15_GroupsIndependent ==
    /\ [](pc = "returned" /\ run > 1 =>
            /\ Range(out) = Range(prevOut)
            /\ {e.tag : e \in Range(out)} = {g.tag : g \in Range(endpointsByTag)})
    /\ [][StepKeepsInputs]_vars

\* the second run finished the second group first, after both groups had been
\* started, and returned the artifacts of the first run
C15_Witness ==
    /\ pc = "returned" /\ run > 1
    /\ Len(out) = 2 /\ Len(prevOut) = 2
    /\ out[1] = prevOut[2] /\ out[2] = prevOut[1]
    /\ out[1].types # out[2].types
    /\ passes > 0

----------------------------------------------------------------------------
(* Saving: saveDocumentationToFile, formatCode *)

\* a path is the sequence of its segments: "./docs/test.md" is
\* <<".", "docs", "test.md">>, "/out/api.md" is <<"", "out", "api.md">>
OutputPaths ==
    {<<".", "docs", "test.md">>, <<".", "newdir", "api", "index.md">>, <<"README.md">>,
     <<"", "out", "api.md">>, <<"", "api.md">>}

\* the directory two levels above a path
DirnameOfDirname(p) == IF Len(p) <= 2 THEN <<".">> ELSE SubSeq(p, 1, Len(p) - 2)

\* path.dirname(p)
Dirname(p) == IF Len(p) = 1 THEN <<".">> ELSE SubSeq(p, 1, Len(p) - 1)

\* the directory and the directories above it, which mkdirSync with
\* { recursive: true } creates
RECURSIVE WithParents(_)
WithParents(dir) ==
    IF Len(dir) = 1 THEN {dir} ELSE {dir} \cup WithParents(Dirname(dir))

\* what the disk can hold before the call: the working directory and the
\* root exist, and every directory lies in an existing one
DirectorySets ==
    {ds \in SUBSET UNION {WithParents(Dirname(p)) : p \in OutputPaths} :
        /\ {<<".">>, <<"">>} \subseteq ds
        /\ \A d \in ds : WithParents(d) \subseteq ds}

DocumentationTexts == {<<>>, <<"# Test Documentation">>, <<"# Sample API", "", "text">>}

\* the temporary file of formatCode: join(tmpdir(), `prettier-tmp-...`)
TempPath == <<"", "tmp", "prettier-tmp.md">>

\* what running prettier on the temporary file does: it rewrites the file
\* with some text, or the command fails
PrettierRuns ==
    {[ok |-> FALSE]} \cup {[ok |-> TRUE, text |-> t] : t \in DocumentationTexts}

\* npx prettier --write "${tempPath}" ...
PrettierCommand(path) == <<"npx prettier --write">> \o path

FsCall(fn, args) == [fn |-> fn, args |-> args]

InitSave ==
    /\ pc = "ready"
    /\ api = "saveDocumentationToFile"
    /\ arg \in [documentation : DocumentationTexts, outputPath : OutputPaths]
    /\ \E ds \in DirectorySets, w \in BOOLEAN, test \in BOOLEAN, pr \in PrettierRuns :
        world = [dirs |-> ds, dirsBefore |-> ds, files |-> {}, writable |-> w,
                 inTest |-> test, prettier |-> pr]
    /\ calls = <<>>
    /\ doc = <<>>
    /\ Unused({"suspended", "groupVars", "tmpl", "endpointsByTag", "tagIdx", "roots", "result",
               "changed", "passes", "out", "thrown", "console", "run", "prevOut"})
    /\ ret = <<>>

\* fs.writeFileSync(path, text, 'utf8') on the disk
WriteFile(files, path, text) ==
    {f \in files : f.path # path} \cup {[path |-> path, text |-> text]}

\* saveDocumentationToFile up to the call of formatCode: the directory of
\* outputPath is looked up and, when it does not exist, created
CallSaveDocumentationToFile ==
    /\ pc = "ready"
    /\ api = "saveDocumentationToFile"
    /\ LET dir == Dirname(arg.outputPath)
           exists == dir \in world.dirs
       IN IF exists
          THEN /\ calls' = Append(calls, FsCall("fs.existsSync", <<dir>>))
               /\ pc' = "format"
               /\ UNCHANGED <<world, thrown>>
          ELSE IF world.writable
          THEN /\ calls' = calls \o <<FsCall("fs.existsSync", <<dir>>),
                                      FsCall("fs.mkdirSync", <<dir, [recursive |-> TRUE]>>)>>
               /\ world' = [world EXCEPT !.dirs = @ \cup WithParents(dir)]
               /\ pc' = "format"
               /\ thrown' = thrown
          ELSE /\ calls' = calls \o <<FsCall("fs.existsSync", <<dir>>),
                                      FsCall("fs.mkdirSync", <<dir, [recursive |-> TRUE]>>)>>
               /\ pc' = "error"
               /\ thrown' = "EACCES"
               /\ world' = world
    /\ UNCHANGED <<api, doc, tmpl, endpointsByTag, tagIdx, roots, result, changed, passes,
                   groupVars, out, console, run, prevOut, arg, ret, suspended>>

\* formatCode(documentation, outputPath): the code itself under jest; else
\* the code goes through a temporary file that prettier rewrites, and when
\* any of that fails a warning is logged and the code is returned as it was
FormatCode ==
    /\ pc = "format"
    /\ IF world.inTest
       THEN /\ ret' = arg.documentation
            /\ UNCHANGED <<calls, world, console>>
       ELSE IF ~world.writable
       THEN /\ calls' = Append(calls, FsCall("fs.writeFileSync",
                                             <<TempPath, arg.documentation, "utf8">>))
            /\ console' = Append(console, <<Kw("warn"), Kw("Failed to format")>>)
            /\ ret' = arg.documentation
            /\ world' = world
       ELSE IF ~world.prettier.ok
       THEN /\ calls' = calls \o <<FsCall("fs.writeFileSync",
                                          <<TempPath, arg.documentation, "utf8">>),
                                   FsCall("execSync", <<PrettierCommand(TempPath)>>)>>
            /\ world' = [world EXCEPT
                            !.files = WriteFile(@, TempPath, arg.documentation)]
            /\ console' = Append(console, <<Kw("warn"), Kw("Failed to format")>>)
            /\ ret' = arg.documentation
       ELSE /\ calls' = calls \o <<FsCall("fs.writeFileSync",
                                          <<TempPath, arg.documentation, "utf8">>),
                                   FsCall("execSync", <<PrettierCommand(TempPath)>>),
                                   FsCall("fs.readFileSync", <<TempPath, "utf8">>),
                                   FsCall("fs.unlinkSync", <<TempPath>>)>>
            /\ ret' = world.prettier.text
            /\ UNCHANGED <<world, console>>
    /\ pc' = "write"
    /\ UNCHANGED <<api, doc, tmpl, endpointsByTag, tagIdx, roots, result, changed, passes,
                   groupVars, out, thrown, run, prevOut, arg, suspended>>

\* fs.writeFileSync(outputPath, formattedDocumentation, 'utf8')
WriteDocumentation ==
    /\ pc = "write"
    /\ calls' = Append(calls, FsCall("fs.writeFileSync", <<arg.outputPath, ret, "utf8">>))
    /\ IF world.writable
       THEN /\ world' = [world EXCEPT !.files = WriteFile(@, arg.outputPath, ret)]
            /\ pc' = "returned"
            /\ thrown' = thrown
       ELSE /\ pc' = "error"
            /\ thrown' = "EACCES"
            /\ world' = world
    /\ UNCHANGED <<api, doc, tmpl, endpointsByTag, tagIdx, roots, result, changed, passes,
                   groupVars, out, console, run, prevOut, arg, ret, suspended>>

NextSave ==
    \/ CallSaveDocumentationToFile
    \/ FormatCode
    \/ WriteDocumentation

SpecSave == InitSave /\ [][NextSave]_vars

\* the positions in the call log of the calls of fn
CallsOf(fn) == {i \in 1..Len(calls) : calls[i].fn = fn}

\* C16: when saveDocumentationToFile returns it has first looked up the
\* parent directory of outputPath, has created it recursively exactly when it
\* did not exist, and has then written to outputPath exactly once, as its last
\* call; when formatting is skipped the text written is the documentation
\* passed in.
C16_SaveWritesOnce ==
    (api = "saveDocumentationToFile" /\ pc = "returned") =>
        LET dir == IF Len(arg.outputPath) = 1 THEN <<".">>
                   ELSE SubSeq(arg.outputPath, 1, Len(arg.outputPath) - 1)
        IN /\ calls[1] = FsCall("fs.existsSync", <<dir>>)
           /\ CallsOf("fs.existsSync") = {1}
           /\ IF dir \in world.dirsBefore
              THEN CallsOf("fs.mkdirSync") = {}
              ELSE /\ CallsOf("fs.mkdirSync") = {2}
                   /\ calls[2].args = <<dir, [recursive |-> TRUE]>>
           /\ dir \in world.dirs
           /\ {i \in CallsOf("fs.writeFileSync") : calls[i].args[1] = arg.outputPath}
                = {Len(calls)}
           /\ \A i \in 1..Len(calls) : calls[i].args[1] = arg.outputPath => i = Len(calls)
           /\ world.inTest =>
                /\ calls[Len(calls)].args = <<arg.outputPath, arg.documentation, "utf8">>
                /\ [path |-> arg.outputPath, text |-> arg.documentation] \in world.files
                /\ Len(calls) = Cardinality(CallsOf("fs.mkdirSync")) + 2

\* a file was saved into a directory that had to be created, two levels deep,
\* with formatting skipped
C16_Witness ==
    /\ api = "saveDocumentationToFile" /\ pc = "returned"
    /\ world.inTest
    /\ Len(arg.outputPath) = 4
    /\ Dirname(Dirname(arg.outputPath)) \notin world.dirsBefore
    /\ Dirname(arg.outputPath) \in world.dirs
    /\ arg.documentation # <<>>
    /\ Len(calls) = 3

----------------------------------------------------------------------------
(* Documentation: generateDocumentation *)

\* a text is the sequence of its lines, a line the sequence of its pieces

\* a string left as it is
SameCase(str) == str

\* String.prototype.toUpperCase
ToUpperCase(str) == [i \in 1..Len(str) |-> ToUpperChar(str[i])]

\* a field that is present and not the empty string
Truthy(x, f) == Has(x, f) /\ x[f] # ""

\* a line followed by an empty line
Paragraph(line) == <<line, <<>>>>

\* the fenced block of JSON.stringify(value, null, 2) under a caption
JsonBlock(caption, value) ==
    <<<<>>, <<Kw(caption)>>, <<Tick, Tick, Tick, Kw("json")>>, Stringify(value),
      <<Tick, Tick, Tick>>, <<>>>>

\* the example of a media type, or else its schema
MediaBlock(kind, media) ==
    IF Has(media, "example")
    THEN JsonBlock(IF kind = "Request" THEN "**Example Request:**"
                   ELSE "**Example Response:**", media.example)
    ELSE IF Has(media, "schema") THEN JsonBlock("**Schema:**", media.schema)
    ELSE <<>>

ParameterLine(param) ==
    <<Kw("- **"), param.name, Kw("** ("), Kw(param.in), Kw("): "),
      Kw(IF Truthy(param, "description") THEN param.description ELSE "")>>
    \o (IF Has(param, "required") /\ param.required THEN <<Kw(" *(required)*")>> ELSE <<>>)

ResponseLine(r) ==
    <<Kw("- **"), Kw(r.code), Kw("**: "), Kw(r.response.description)>>

\* the section of one method of one path
EndpointSection(e) ==
    LET info == e.endpointInfo
    IN Paragraph(<<Kw("### "), ToUpperCase(e.method), Kw(" "), e.path>>)
       \o (IF Truthy(info, "summary")
           THEN Paragraph(<<Kw("**Summary:** "), Kw(info.summary)>>) ELSE <<>>)
       \o (IF Truthy(info, "description")
           THEN Paragraph(<<Kw("**Description:** "), Kw(info.description)>>) ELSE <<>>)
       \o (IF Has(info, "parameters") /\ Len(info.parameters) > 0
           THEN Paragraph(<<Kw("**Parameters:**")>>)
                \o [i \in 1..Len(info.parameters) |-> ParameterLine(info.parameters[i])]
                \o <<<<>>>>
           ELSE <<>>)
       \o (IF Has(info, "requestBody")
           THEN Paragraph(<<Kw("**Request Body:**")>>)
                \o Flatten([i \in 1..Len(info.requestBody.content) |->
                        <<<<Kw("- Content-Type: "),
                            Kw(info.requestBody.content[i].mediaType)>>>>
                        \o MediaBlock("Request", info.requestBody.content[i].media)])
           ELSE <<>>)
       \o (IF Has(info, "responses")
           THEN Paragraph(<<Kw("**Responses:**")>>)
                \o Flatten([i \in 1..Len(info.responses) |->
                        <<ResponseLine(info.responses[i])>>
                        \o (IF Has(info.responses[i].response, "content")
                            THEN Flatten([j \in 1..Len(info.responses[i].response.content) |->
                                    MediaBlock("Response",
                                        info.responses[i].response.content[j].media)])
                            ELSE <<>>)])
           ELSE <<>>)
       \o Paragraph(<<Kw("---")>>)

generateDocumentation(swaggerDoc) ==
    Paragraph(<<Kw("# "), Kw(swaggerDoc.info.title)>>)
    \o Paragraph(<<Kw(IF Truthy(swaggerDoc.info, "description")
                      THEN swaggerDoc.info.description ELSE swaggerDoc.info.title),
                   Kw(" v"), Kw(swaggerDoc.info.version)>>)
    \o Paragraph(<<Kw("## API Endpoints")>>)
    \o Flatten([i \in 1..Len(EndpointsOf(swaggerDoc.paths)) |->
                    EndpointSection(EndpointsOf(swaggerDoc.paths)[i])])

\* the documents of the documentation runs
DocumentedInfos ==
    {Info, [title |-> "Test API", version |-> "1.0.0", description |-> "A test API"]}

IdJsonExample == JObj(<<Member("id", JStr("1"))>>)
StringJsonSchema == JObj(<<Member("type", JStr("string"))>>)

DocumentedResponses ==
    {<<[code |-> "200", response |-> [description |-> "Successful response"]]>>,
     <<[code |-> "200",
        response |-> [description |-> "Successful response",
                      content |-> <<[mediaType |-> "application/json",
                                     media |-> [example |-> IdJsonExample]]>>]],
       [code |-> "404", response |-> [description |-> "Not found"]],
       [code |-> "default",
        response |-> [description |-> "Error",
                      content |-> <<[mediaType |-> "application/json",
                                     media |-> [schema |-> StringJsonSchema]]>>]]>>}

DocumentedFieldSets ==
    {{}, {"summary"}, {"responses"}, {"description", "responses"},
     {"parameters", "responses"},
     {"summary", "description", "parameters", "requestBody", "responses"}}

DocumentedOperation(fields, responses) ==
    [f \in fields |->
        CASE f = "summary" -> "Get test"
          [] f = "description" -> "Returns test data"
          [] f = "parameters" ->
                <<[name |-> PropId, in |-> "path", required |-> TRUE,
                   description |-> "The id"],
                  [name |-> <<"q">>, in |-> "query"]>>
          [] f = "requestBody" ->
                [content |-> <<[mediaType |-> "application/json",
                                media |-> [schema |-> StringJsonSchema]]>>]
          [] OTHER -> responses]

DocumentedEndpoints ==
    {Endpoint(path, method, DocumentedOperation(fields, responses)) :
        path \in {PathUsers, PathA}, method \in {Get, Post},
        fields \in DocumentedFieldSets, responses \in DocumentedResponses}

DocumentedDocs ==
    {[info |-> info, paths |-> PathsOf(es, <<>>)] :
        info \in DocumentedInfos,
        es \in {es \in SeqsUpTo(DocumentedEndpoints, MaxEndpoints) :
                    \A i, j \in 1..Len(es) :
                        (es[i].path = es[j].path /\ es[i].method = es[j].method) => i = j}}

InitDocumentation ==
    /\ pc = "idle"
    /\ api = "generateDocumentation"
    /\ doc \in DocumentedDocs
    /\ Unused({"suspended", "groupVars", "tmpl", "endpointsByTag", "tagIdx", "roots", "result",
               "changed", "passes", "out", "thrown", "console", "run", "prevOut", "arg",
               "ret", "ioVars"})

CallGenerateDocumentation ==
    /\ pc = "idle"
    /\ api = "generateDocumentation"
    /\ out' = generateDocumentation(doc)
    /\ pc' = "returned"
    /\ UNCHANGED <<api, doc, tmpl, endpointsByTag, tagIdx, roots, result, changed, passes,
                   groupVars, thrown, console, run, prevOut, arg, ret, ioVars, suspended>>

NextDocumentation == CallGenerateDocumentation

SpecDocumentation == InitDocumentation /\ [][NextDocumentation]_vars

\* the lines of a text that begin with this piece, by position
LinesWith(text, piece) == {i \in 1..Len(text) : text[i] # <<>> /\ text[i][1] = Kw(piece)}

\* the k-th smallest member of a set of positions
RECURSIVE Nth(_, _)
Nth(S, k) ==
    LET m == CHOOSE x \in S : \A y \in S : x <= y
    IN IF k = 1 THEN m ELSE Nth(S \ {m}, k - 1)

\* the lines of the k-th endpoint section: from its heading up to the next
\* heading or the end of the text
SectionLines(text, k) ==
    LET hs == LinesWith(text, "### ")
        first == Nth(hs, k)
        last == IF k = Cardinality(hs) THEN Len(text) ELSE Nth(hs, k + 1) - 1
    IN SubSeq(text, first, last)

\* the lines of a text that begin with this piece, in order
Select(text, piece) == SelectSeq(text, LAMBDA l : l # <<>> /\ l[1] = Kw(piece))

\* C17: the text of generateDocumentation begins with the title heading,
\* followed by the line of the description (the title without one) and the
\* version; it has exactly one '### METHOD path' section per (path, method) of
\* the document, in document order; each section holds the summary line and
\* the description line exactly when the endpoint has them, and one
\* '- **<status>**: <description>' line per response status code.
C17_DocumentationSections ==
    (api = "generateDocumentation" /\ pc = "returned") =>
        LET es == EndpointsOf(doc.paths)
        IN /\ out[1] = <<Kw("# "), Kw(doc.info.title)>>
           /\ out[3] = <<Kw(IF Has(doc.info, "description") THEN doc.info.description
                            ELSE doc.info.title), Kw(" v"), Kw(doc.info.version)>>
           /\ LinesWith(out, "# ") = {1}
           /\ Cardinality(LinesWith(out, "### ")) = Len(es)
           /\ \A k \in 1..Len(es) :
                LET section == SectionLines(out, k)
                    info == es[k].endpointInfo
                IN /\ section[1] = <<Kw("### "), [i \in 1..Len(es[k].method) |->
                                                    ToUpperChar(es[k].method[i])],
                                     Kw(" "), es[k].path>>
                   /\ Select(section, "**Summary:** ") =
                        (IF Has(info, "summary")
                         THEN <<<<Kw("**Summary:** "), Kw(info.summary)>>>> ELSE <<>>)
                   /\ Select(section, "**Description:** ") =
                        (IF Has(info, "description")
                         THEN <<<<Kw("**Description:** "), Kw(info.description)>>>>
                         ELSE <<>>)
                   /\ SelectSeq(section, LAMBDA l : Len(l) = 4 /\ l[1] = Kw("- **")
                                                     /\ l[3] = Kw("**: ")) =
                        (IF Has(info, "responses")
                         THEN [i \in 1..Len(info.responses) |->
                                <<Kw("- **"), Kw(info.responses[i].code), Kw("**: "),
                                  Kw(info.responses[i].response.description)>>]
                         ELSE <<>>)

\* a document with two endpoints was rendered: one with a summary, a
\* description and three response codes, after one without any of them
C17_Witness ==
    /\ api = "generateDocumentation" /\ pc = "returned"
    /\ Len(EndpointsOf(doc.paths)) = 2
    /\ ~Has(EndpointsOf(doc.paths)[1].endpointInfo, "summary")
    /\ Has(EndpointsOf(doc.paths)[2].endpointInfo, "summary")
    /\ Has(EndpointsOf(doc.paths)[2].endpointInfo, "responses")
    /\ Len(EndpointsOf(doc.paths)[2].endpointInfo.responses) = 3
    /\ Cardinality(LinesWith(SectionLines(out, 2), "- **")) = 5
    /\ Has(doc.info, "description")

----------------------------------------------------------------------------
(* findAllReferencedSchemas on registries of any size and any set of names *)

\* the registries with at most NumSchemas schemas: the first schemas of a
\* registry, whose references to the schemas left out dangle
SmallRegistries == {SubSeq(reg, 1, n) : reg \in Registries, n \in 0..NumSchemas}

\* initialSchemas holds any names, with or without a registry entry
InitClosureAny ==
    /\ pc = "closure"
    /\ api = "findAllReferencedSchemas"
    /\ \E reg \in SmallRegistries :
        doc = [info |-> Info, components |-> [schemas |-> reg]]
    /\ roots \in SubSeqs(Append(RegNames, Missing))
    /\ result = roots
    /\ changed = TRUE
    /\ passes = 0
    /\ Unused({"suspended", "groupVars", "tmpl", "endpointsByTag", "tagIdx", "out", "thrown",
               "console", "run", "prevOut", "arg", "ret", "ioVars"})

SpecClosureAny == InitClosureAny /\ [][NextClosure]_vars

\* the names that the result can still take: those of the registry that it
\* does not hold
Addable == Range(Names(Schemas(doc))) \ Range(result)

\* a pass keeps what the result holds; the loop returns after a pass that
\* added no name, and goes on after a pass that added one, which leaves fewer
\* names to add: the loop cannot go on for ever
PassGrowsOrStops ==
    /\ pc = "closure"
    /\ Range(result) \subseteq Range(result')
    /\ passes' = passes + 1
    /\ IF result' = result THEN pc' = "closed"
       ELSE /\ pc' = "closure"
            /\ Cardinality(Addable') < Cardinality(Addable)

PassesAtMost(n) == api = "findAllReferencedSchemas" => passes <= n

RegistryNamesOf(reg, S) == {n \in S : InRegistry(reg, n)}

----------------------------------------------------------------------------
(* Direct usage: the root set of a tag group *)

\* the places of an endpoint that can hold a schema
SchemaPlaces ==
    {"response", "laterResponse", "laterContentType", "parameter", "requestBody",
     "laterBodyType", "responseHeader"}

TwoMediaTypes(schema) ==
    <<[mediaType |-> "text/plain", media |-> [schema |-> StringSchema]],
      [mediaType |-> "application/xml", media |-> [schema |-> schema]]>>

\* the endpointInfo that holds this schema in this place
InfoWithSchema(place, schema) ==
    CASE place = "response" -> [responses |-> <<ResponseOf("200", schema)>>]
      [] place = "laterResponse" ->
            [responses |-> <<ResponseNoContent("204"), ResponseOf("404", schema)>>]
      [] place = "laterContentType" ->
            [responses |-> <<[code |-> "200",
                              response |-> [description |-> "ok",
                                            content |-> TwoMediaTypes(schema)]]>>]
      [] place = "parameter" ->
            [parameters |-> <<ParamQuery, [name |-> <<"f">>, in |-> "query",
                                           schema |-> schema]>>,
             responses |-> <<ResponseNoContent("204")>>]
      [] place = "requestBody" ->
            [requestBody |-> [content |-> JsonContent(schema)],
             responses |-> <<ResponseNoContent("204")>>]
      [] place = "laterBodyType" ->
            [requestBody |-> [content |-> TwoMediaTypes(schema)]]
      [] OTHER ->
            [responses |-> <<[code |-> "200",
                              response |-> [description |-> "ok",
                                            headers |-> <<Entry(<<"x">>, [schema |-> schema])>>]]>>]

\* the tag groups of the direct-usage runs: one endpoint with any edge shape
\* in any place, alone or followed by a second endpoint with a bare $ref
UsageGroups ==
    LET first == {Endpoint(PathUsers, Get, InfoWithSchema(place, SchemaWithEdge(shape, t))) :
                    place \in SchemaPlaces, shape \in Range(EdgeShapes),
                    t \in Range(RegNames) \cup {Missing}}
        second == {Endpoint(PathA, Post, InfoWithSchema(place, RefTo(t))) :
                    place \in SchemaPlaces, t \in Range(RegNames) \cup {Missing}}
    IN {<<e>> : e \in first} \cup {<<e, f>> : e \in first, f \in second}

\* registries in which a schema refers to nothing or to the last schema
UsageRegistries ==
    {RegistryOf(1, targetOf) : targetOf \in [1..NumSchemas -> {NoTarget, RegNames[NumSchemas]}]}

\* generateReactHooks at the start of its iteration over a tag group
InitDirectUse ==
    /\ pc = "select"
    /\ api = "generateReactHooks"
    /\ \E es \in UsageGroups, reg \in UsageRegistries :
        /\ doc = [info |-> Info, paths |-> PathsOf(es, <<>>),
                  components |-> [schemas |-> reg]]
        /\ endpointsByTag = <<[tag |-> General, endpoints |-> es]>>
    /\ tagIdx = 1
    /\ Unused({"suspended", "groupVars", "tmpl", "roots", "result", "changed", "passes", "out",
               "thrown", "console", "run", "prevOut", "arg", "ret", "ioVars"})

NextDirectUse == SelectSchemas

SpecDirectUse == InitDirectUse /\ [][NextDirectUse]_vars

\* the schemas that an endpoint holds under the content of a response, in a
\* parameter, or under the content of its request body
SeqToSet(seq) == {seq[i] : i \in 1..Len(seq)}

SchemasUnderContent(holder) ==
    IF Has(holder, "content")
    THEN {c.media.schema : c \in {c \in SeqToSet(holder.content) : Has(c.media, "schema")}}
    ELSE {}

InspectedSchemas(endpointInfo) ==
    (IF Has(endpointInfo, "responses")
     THEN UNION {SchemasUnderContent(r.response) : r \in SeqToSet(endpointInfo.responses)}
     ELSE {})
    \cup (IF Has(endpointInfo, "parameters")
          THEN {p.schema : p \in {p \in SeqToSet(endpointInfo.parameters) : Has(p, "schema")}}
          ELSE {})
    \cup (IF Has(endpointInfo, "requestBody")
          THEN SchemasUnderContent(endpointInfo.requestBody) ELSE {})

\* C20: when the root set of a tag group has been computed, a registry name
\* is in it if and only if a schema that some endpoint of the group holds in a
\* response content (any status code, any content type), in a parameter, or in
\* its request-body content (any content type) contains a $ref to the name, in
\* itself or at any depth of its properties, array items and allOf / oneOf /
\* anyOf members; the schemas that the references name are not looked into.
C20_RootsAreDirectReferences ==
    (api = "generateReactHooks" /\ pc = "closure" /\ passes = 0) =>
        /\ Range(roots) =
            {n \in Range(Names(Schemas(doc))) :
                \E e \in Range(Group.endpoints) :
                    \E schema \in InspectedSchemas(e.endpointInfo) : n \in RefNamesIn(schema)}
        /\ Len(roots) = Cardinality(Range(roots))

\* a name referenced at depth in a parameter schema is a root, and the name
\* that its schema refers to is not
C20_Witness ==
    /\ api = "generateReactHooks" /\ pc = "closure" /\ passes = 0
    /\ roots = <<NameA>>
    /\ Len(Group.endpoints) = 1
    /\ Has(Group.endpoints[1].endpointInfo, "parameters")
    /\ ~HasRef(Group.endpoints[1].endpointInfo.parameters[2].schema)
    /\ RefNamesIn(Lookup(Schemas(doc), NameA)) = {RegNames[NumSchemas]}

----------------------------------------------------------------------------
(* The pruning pass of generateReactHooks *)

\* generateReactHooks has just stored the artifact of a tag group: the locals
\* of the iteration are those of the group stored last
JustStored ==
    /\ api = "generateReactHooks"
    /\ pc \in {"select", "returned"}
    /\ tagIdx > 1
    /\ Len(out) >= 1

\* the bindings text of the group stored last
StoredHooks == out[IndexOfTag(out, endpointsByTag[tagIdx - 1].tag)].hooks

\* C21: after the pruning pass of generateReactHooks the type import of a
\* tag group lists candidate type names only, and lists a candidate if and
\* only if the name occurs as a whole word in the generated bindings, that is
\* in the rendered hooks of the group.
C21_TypeImportIffUsed ==
    JustStored =>
        /\ TypeImportNames(StoredHooks) \subseteq Range(hookTypesUsed)
        /\ \A name \in Range(hookTypesUsed) :
                (name \in TypeImportNames(StoredHooks))
                    <=> WordOccurs(name, Flatten(allHookContents))

\* the half of it that the pruning pass keeps: names in use are imported
PrunedImportKeepsUsed ==
    JustStored =>
        /\ TypeImportNames(StoredHooks) \subseteq Range(hookTypesUsed)
        /\ \A name \in Range(hookTypesUsed) :
                WordOccurs(name, Flatten(allHookContents))
                    => name \in TypeImportNames(StoredHooks)

----------------------------------------------------------------------------
(* Unions, enumerations and intersections of the resolver *)

\* the resolver has returned from a call on a node without $ref
Resolved ==
    /\ pc = "returned"
    /\ api \in {"convertTypeToTs", "generateSingleTypeDefinition"}
    /\ ~HasRef(arg.schema)

\* the text of a top-level definition  export type Name = expression;
TypeAlias(typeName, expression) ==
    <<Kw("export"), Kw("type"), typeName, Kw("=")>> \o expression \o <<Kw(";")>>

\* the entries of a list without the repetitions, in first-seen order
RECURSIVE Distinct(_)
Distinct(list) ==
    IF list = <<>> THEN <<>>
    ELSE LET front == Distinct(SubSeq(list, 1, Len(list) - 1))
             last == list[Len(list)]
         IN IF last \in Range(front) THEN front ELSE Append(front, last)

\* the union the specification gives to a oneOf / anyOf member list
UnionOfMembers(members, schemaComponents) ==
    IF members = <<>> THEN TsAny
    ELSE Join(Distinct([i \in 1..Len(members) |->
                           convertTypeToTs(members[i], schemaComponents)]), <<Bar>>)

\* the node reaches the oneOf / anyOf rule of the function that was called
ReachesUnionRule(node) ==
    /\ Has(node, "oneOf") \/ Has(node, "anyOf")
    /\ api = "convertTypeToTs" => ~Has(node, "allOf")
    /\ api = "generateSingleTypeDefinition" => ~Has(node, "enum")

\* C22: for every oneOf / anyOf node the resolved expression is the union of
\* the members' resolved expressions with duplicates removed and first-seen
\* order preserved, and an empty member list resolves to the unknown type,
\* for a nested node (convertTypeToTs) and for a top-level schema
\* (generateSingleTypeDefinition) alike.
C22_UnionOfDistinctMembers ==
    (Resolved /\ ReachesUnionRule(arg.schema)) =>
        LET node == arg.schema
            members == IF Has(node, "oneOf") THEN node.oneOf ELSE node.anyOf
            union == UnionOfMembers(members, arg.allSchemas)
        IN ret = IF api = "convertTypeToTs" THEN union
                 ELSE TypeAlias(arg.typeName, union)

\* the literal union of the enum values, each between two quote marks
LiteralUnion(values, quote) ==
    Join([i \in 1..Len(values) |-> <<quote, values[i], quote>>], <<Bar>>)

\* C23: for every non-reference schema node that carries `enum`, resolution
\* yields the literal union of the quoted enum values, whatever the declared
\* type (string, number, integer, absent) and before any oneOf / anyOf,
\* allOf, type-array or scalar rule, nested and top-level alike.
C23_EnumIsLiteralUnion ==
    (Resolved /\ Has(arg.schema, "enum")) =>
        \E quote \in {SQ, DQ} :
            ret = IF api = "convertTypeToTs"
                  THEN LiteralUnion(arg.schema.enum, quote)
                  ELSE TypeAlias(arg.typeName, LiteralUnion(arg.schema.enum, quote))

\* the part of it that the code keeps: a top-level enum, and a nested enum
\* whose declared type is the single word string
C23_StringEnumIsLiteralUnion ==
    (Resolved /\ Has(arg.schema, "enum")
     /\ (api = "convertTypeToTs" =>
            /\ Has(arg.schema, "type") /\ arg.schema.type = "string"
            /\ DOMAIN arg.schema \cap {"allOf", "oneOf", "anyOf", "types"} = {})) =>
        \E quote \in {SQ, DQ} :
            ret = IF api = "convertTypeToTs"
                  THEN LiteralUnion(arg.schema.enum, quote)
                  ELSE TypeAlias(arg.typeName, LiteralUnion(arg.schema.enum, quote))

\* the members of an allOf list that are inline objects with properties
InlineObjects(members) ==
    SelectSeq(members, LAMBDA m : ~HasRef(m) /\ Has(m, "type") /\ m.type = "object"
                                  /\ Has(m, "properties"))

\* the property maps of the inline objects merged into one: every property
\* name once, in first-seen order, with the schema declared last
MergedProperties(members) ==
    LET all == Flatten([i \in 1..Len(InlineObjects(members)) |->
                           InlineObjects(members)[i].properties])
        names == Distinct([i \in 1..Len(all) |-> all[i].name])
        last(name) == CHOOSE i \in 1..Len(all) :
                          /\ all[i].name = name
                          /\ \A j \in (i + 1)..Len(all) : all[j].name # name
    IN [k \in 1..Len(names) |-> all[last(names[k])]]

\* the property names some inline object of the list requires
RequiredOfMembers(members) ==
    Flatten([i \in 1..Len(InlineObjects(members)) |->
                IF Has(InlineObjects(members)[i], "required")
                THEN InlineObjects(members)[i].required ELSE <<>>])

\* the intersection the specification gives to an allOf member list: the
\* names of the $ref members, then one inline object type of the merged
\* properties, as the called function renders an inline object
IntersectionOfMembers(node, schemaComponents) ==
    LET members == node.allOf
        refs == SelectSeq(members, HasRef)
        names == [i \in 1..Len(refs) |-> <<RefTypeName(refs[i])>>]
        merged == MergedProperties(members)
        inline ==
            IF api = "convertTypeToTs"
            THEN convertTypeToTs(
                    IF Has(node, "required")
                    THEN [type |-> "object", properties |-> merged,
                          required |-> node.required]
                    ELSE [type |-> "object", properties |-> merged], schemaComponents)
            ELSE generateInlineObjectInterface(
                    [type |-> "object", properties |-> merged,
                     required |-> RequiredOfMembers(members)], schemaComponents)
    IN Join(names \o (IF merged # <<>> THEN <<inline>> ELSE <<>>), <<Amp>>)

\* the node reaches the allOf rule of the function that was called, and at
\* least one of the two parts of the intersection is present
ReachesIntersectionRule(node) ==
    /\ Has(node, "allOf")
    /\ api = "generateSingleTypeDefinition" =>
            DOMAIN node \cap {"enum", "oneOf", "anyOf"} = {}
    /\ \E i \in 1..Len(node.allOf) :
            HasRef(node.allOf[i]) \/ InlineObjects(<<node.allOf[i]>>) # <<>>

\* C24: for every allOf node the resolved expression is the '&'-intersection
\* of the names of its $ref members, verbatim and in member order, followed
\* by one inline object type built from the merged property maps of its
\* inline-object members (a later member replaces an earlier property of the
\* same name); an absent part is omitted; this holds for a nested node
\* (convertTypeToTs) and for a top-level schema (generateSingleTypeDefinition).
C24_IntersectionOfMembers ==
    (Resolved /\ ReachesIntersectionRule(arg.schema)) =>
        LET intersection == IntersectionOfMembers(arg.schema, arg.allSchemas)
        IN ret = IF api = "convertTypeToTs" THEN intersection
                 ELSE TypeAlias(arg.typeName, intersection)

\* the part of it that the code keeps: the nested nodes, and the top-level
\* schemas with at most one inline object, which no $ref member follows
C24_NestedIntersectionOfMembers ==
    (Resolved /\ ReachesIntersectionRule(arg.schema)
     /\ (api = "generateSingleTypeDefinition" =>
            LET members == arg.schema.allOf
            IN /\ Len(InlineObjects(members)) <= 1
               /\ \A i \in 1..Len(members) : \A j \in (i + 1)..Len(members) :
                      ~(InlineObjects(<<members[i]>>) # <<>> /\ HasRef(members[j])))) =>
        LET intersection == IntersectionOfMembers(arg.schema, arg.allSchemas)
        IN ret = IF api = "convertTypeToTs" THEN intersection
                 ELSE TypeAlias(arg.typeName, intersection)

----------------------------------------------------------------------------
(* The response type of a binding *)

\* the JSON content schema that the response of each listed code carries in
\* the model, a different one for every code
SchemaOfCode(code) ==
    CASE code = "200" -> RefTo(User)
      [] code = "201" -> StringSchema
      [] code = "204" -> [type |-> "integer"]
      [] code = "202" -> [type |-> "boolean"]
      [] code = "203" -> [type |-> "array", items |-> StringSchema]
      [] code = "205" -> [type |-> "string", enum |-> <<Kw("a"), Kw("b")>>]
      [] OTHER -> RefTo(Admin)

\* a response whose only content is of another media type
ResponsePlainText(code, schema) ==
    [code |-> code,
     response |-> [description |-> "text",
                   content |-> <<[mediaType |-> "text/plain",
                                  media |-> [schema |-> schema]]>>]]

\* what the `responses` object holds for a status code: nothing, a response
\* without content, one with a JSON content schema, one with plain text only
ResponseShapes == {"absent", "none", "json", "text"}

ResponseIn(shape, code) ==
    CASE shape = "absent" -> <<>>
      [] shape = "none" -> <<ResponseNoContent(code)>>
      [] shape = "json" -> <<ResponseOf(code, SchemaOfCode(code))>>
      [] OTHER -> <<ResponsePlainText(code, SchemaOfCode(code))>>

\* the status codes of the `responses` objects: the six listed ones in the
\* order of the keys of a JavaScript object, and an error code
ResponseCodes == <<"200", "201", "202", "203", "204", "205", "404">>

ResponsesObjects ==
    {Flatten([k \in 1..Len(ResponseCodes) |-> ResponseIn(shapes[k], ResponseCodes[k])]) :
        shapes \in [1..Len(ResponseCodes) -> ResponseShapes]}

\* the endpoints the response type is determined for
ResponseEndpoints ==
    {[path |-> PathUsers, method |-> method,
      endpointInfo |-> [operationId |-> IdGetUser, responses |-> responses],
      schemas |-> UserRegistry] :
        method \in {Get, Post}, responses \in ResponsesObjects}
    \cup {[path |-> PathUsers, method |-> Get,
           endpointInfo |-> [operationId |-> IdGetUser], schemas |-> UserRegistry]}

InitResponse ==
    /\ pc = "ready"
    /\ api = "none"
    /\ doc = <<>>
    /\ arg \in ResponseEndpoints
    /\ tmpl = [hook |-> TRUE, hooks |-> "none"]
    /\ Unused({"suspended", "groupVars", "endpointsByTag", "tagIdx", "roots", "result", "changed", "passes",
               "out", "thrown", "console", "run", "prevOut", "ret", "ioVars"})

NextResponse == CallGenerateReactQueryHook

SpecResponse == InitResponse /\ [][NextResponse]_vars

\* the type argument of the axios call of a rendered binding: the tokens
\* between the first '<' and the first '>' of the text
TypeArgument(hook) ==
    LET open == {i \in 1..Len(hook) : hook[i] = Kw("<")}
        close == {i \in 1..Len(hook) : hook[i] = Kw(">")}
        first(S) == CHOOSE i \in S : \A j \in S : i <= j
    IN IF open = {} \/ close = {} THEN <<>>
       ELSE SubSeq(hook, first(open) + 1, first(close) - 1)

\* the response of the endpoint for a status code carries a JSON content schema
CarriesJsonSchema(endpointInfo, code) ==
    /\ Has(endpointInfo, "responses")
    /\ \E i \in 1..Len(endpointInfo.responses) :
          LET r == endpointInfo.responses[i]
          IN /\ r.code = code
             /\ Has(r.response, "content")
             /\ \E m \in Range(r.response.content) :
                    m.mediaType = "application/json" /\ Has(m.media, "schema")

\* C25: the response type of a binding is the resolution of the JSON content
\* schema of the first status code, in the order 200, 201, 204, 202, 203, 205,
\* that carries one; a listed code that is present without a JSON content
\* schema is skipped and the scan continues; when no listed code carries one
\* the response type is the unknown type.  (The template writes the
\* expression with the HTML escaping of a {{value}}.)
C25_ResponseTypeOfFirstSuccess ==
    (api = "generateReactQueryHook" /\ pc = "returned" /\ tmpl.hook) =>
        LET info == arg.endpointInfo
            order == <<"200", "201", "204", "202", "203", "205">>
            carrying == {k \in 1..Len(order) : CarriesJsonSchema(info, order[k])}
            first == CHOOSE k \in carrying : \A j \in carrying : k <= j
        IN TypeArgument(ret) =
             HbsEscape(IF carrying = {} THEN TsAny
                       ELSE convertTypeToTs(SchemaOfCode(order[first]), arg.schemas))

\* 200 is present without content, 201 has plain text only, 204 and 202 both
\* carry a JSON schema: the binding has the type of 204
C25_Witness ==
    /\ api = "generateReactQueryHook" /\ pc = "returned" /\ tmpl.hook
    /\ Has(arg.endpointInfo, "responses")
    /\ ResponseNoContent("200") \in Range(arg.endpointInfo.responses)
    /\ ResponsePlainText("201", StringSchema) \in Range(arg.endpointInfo.responses)
    /\ CarriesJsonSchema(arg.endpointInfo, "204")
    /\ CarriesJsonSchema(arg.endpointInfo, "202")
    /\ TypeArgument(ret) = <<Kw("number")>>

----------------------------------------------------------------------------
(* Read-style and write-style bindings *)

\* the method is GET in some mix of upper and lower case
IsGetMethod(method) ==
    /\ Len(method) = 3
    /\ method[1] \in {"g", "G"} /\ method[2] \in {"e", "E"} /\ method[3] \in {"t", "T"}

\* the endpoint has a path parameter or a query parameter
HasPathOrQueryParams(endpointInfo) ==
    /\ Has(endpointInfo, "parameters")
    /\ \E p \in Range(endpointInfo.parameters) : p.in \in {"path", "query"}

\* the text  queryKey: ['<operationId>'<rest>]
QueryKey(operationId, rest) ==
    <<Kw("queryKey"), Kw(":"), Kw("["), SQ, operationId, SQ>> \o rest \o <<Kw("]")>>

\* C26: an endpoint is read-style exactly when its method is GET, compared
\* without regard to case, and write-style otherwise.  A read-style binding
\* is a query cached under the key made of the operation identifier and the
\* params; a write-style binding is a mutation whose success handler
\* invalidates the cache key that starts with its operation identifier, so
\* that after a write succeeds the read-style entries under that identifier
\* are invalid.
C26_ReadAndWriteStyle ==
    (api = "generateReactQueryHook" /\ pc = "returned" /\ tmpl.hook) =>
        LET uses(word) == \E i \in 1..Len(ret) : ret[i] = Kw(word)
            key(rest) == QueryKey(ArgOperationId, rest)
        IN IF IsGetMethod(arg.method)
           THEN /\ uses("useQuery") /\ ~uses("useMutation") /\ ~uses("invalidateQueries")
                /\ IncludesTokens(ret, <<Kw("useQuery"), Kw("("), Kw("{")>>
                      \o key(IF HasPathOrQueryParams(arg.endpointInfo)
                              THEN <<Kw(","), Kw("params")>> ELSE <<>>))
           ELSE /\ uses("useMutation") /\ ~uses("useQuery")
                /\ IncludesTokens(ret,
                      <<Kw("onSuccess"), Kw(":"), Kw("("), Kw(")"), Kw("=>"), Kw("{"),
                        Kw("queryClient"), Kw("."), Kw("invalidateQueries"), Kw("("),
                        Kw("{")>> \o key(<<>>) \o <<Kw("}"), Kw(")")>>)

\* a binding for the method GET in upper case has been rendered as a query
\* keyed by the operation identifier and the params
C26_Witness ==
    /\ api = "generateReactQueryHook" /\ pc = "returned" /\ tmpl.hook
    /\ arg.method = GetUpper
    /\ ArgOperationId = IdGetUser
    /\ IncludesTokens(ret, QueryKey(IdGetUser, <<Kw(","), Kw("params")>>))

----------------------------------------------------------------------------
(* Operations of one tag group that share their action segment *)

OwnerPrefixes == {<<"u","s","e","r","C","o","n","t","r","o","l","l","e","r">>,
                  <<"a","d","m","i","n","C","o","n","t","r","o","l","l","e","r">>}

ActionSegments == {IdGetUser, IdListUsers}

\* operation identifiers of the form owner_action, and an action alone
OwnedOperationIds ==
    {owner \o <<"_">> \o action : owner \in OwnerPrefixes, action \in ActionSegments}
    \cup {IdGetUser}

\* documents with two operations in the tag group User
CollidingDocs ==
    {[info |-> Info,
      paths |-> PathsOf(<<Endpoint(PathUsersId, Get,
                            [tags |-> <<User>>, operationId |-> first,
                             parameters |-> <<ParamId(TRUE)>>,
                             responses |-> <<ResponseOf("200", RefTo(User))>>]),
                          Endpoint(place[1], place[2],
                            [f \in {"tags", "operationId", "responses"}
                                   \cup (IF params = <<>> THEN {} ELSE {"parameters"}) |->
                                CASE f = "tags" -> <<User>>
                                  [] f = "operationId" -> second
                                  [] f = "responses" -> <<ResponseNoContent("204")>>
                                  [] OTHER -> params])>>, <<>>),
      components |-> [schemas |-> UserRegistry]] :
        first \in OwnedOperationIds, second \in OwnedOperationIds,
        place \in {<<PathUsersId, Delete>>, <<PathUsers, Get>>, <<PathUsers, Post>>},
        params \in {<<>>, <<ParamId(TRUE)>>, <<ParamQuery>>}}

InitColliding ==
    /\ pc = "idle"
    /\ api = "none"
    /\ doc \in CollidingDocs
    /\ tmpl = [hook |-> TRUE, hooks |-> "none"]
    /\ Unused({"suspended", "groupVars", "endpointsByTag", "tagIdx", "roots", "result", "changed", "passes",
               "out", "thrown", "console", "run", "prevOut", "arg", "ret", "ioVars"})

NextColliding ==
    \/ CallGenerateReactHooks
    \/ SelectSchemas
    \/ ClosurePass
    \/ EmitTypes
    \/ EmitHooks
    \/ EmitParamInterfaces
    \/ StoreHooks

SpecColliding == InitColliding /\ [][NextColliding]_vars

\* the names a text declares after the two words given, in the order of the text
DeclaredNames(text, first, second) ==
    LET at == {k \in 1..(Len(text) - 2) : text[k] = Kw(first) /\ text[k + 1] = Kw(second)}
        before(k) == Cardinality({j \in at : j < k})
    IN [n \in 1..Cardinality(at) |-> text[(CHOOSE k \in at : before(k) = n - 1) + 2]]

\* the operation identifier has an owner prefix before its action segment
HasOwnerPrefix(operationId) == "_" \in Range(operationId)

IdGetUserParams == <<"G","e","t","U","s","e","r","P","a","r","a","m","s">>

\* two operations with different owner prefixes and the same action segment
SameAction(first, second) ==
    /\ HasOwnerPrefix(first.operationId) /\ HasOwnerPrefix(second.operationId)
    /\ first.operationId # second.operationId
    /\ AfterLast(first.operationId, "_") = AfterLast(second.operationId, "_")

\* C27: two operations of the same tag group whose operation identifiers
\* have different owner prefixes and the same trailing action segment
\* receive the same binding name, and the same parameter-interface name when
\* both have one; no later step renames either: the stored artifact declares
\* both bindings under that name and the interface under that name.
C27_SameActionSameName ==
    (api = "generateReactHooks" /\ pc = "returned" /\ tmpl.hook /\ Len(out) = 1
     /\ Len(endpointsByTag) = 1) =>
        LET endpoints == endpointsByTag[1].endpoints
            bindings == DeclaredNames(out[1].hooks, "export", "const")
            interfaces == DeclaredNames(out[1].types, "export", "interface")
        IN /\ Len(bindings) = Len(endpoints)
           /\ \A i, j \in 1..Len(endpoints) :
                (i < j /\ SameAction(endpoints[i].endpointInfo, endpoints[j].endpointInfo)) =>
                    LET action == toPascalCase(AfterLast(endpoints[i].endpointInfo.operationId,
                                                         "_"))
                    IN /\ bindings[i] = UseChars \o action
                       /\ bindings[j] = bindings[i]
                       /\ \A e \in {endpoints[i], endpoints[j]} :
                            HasPathOrQueryParams(e.endpointInfo) =>
                                /\ action \o ParamsChars \in Range(interfaces)
                                /\ IncludesTokens(out[1].hooks,
                                      <<Kw("export"), Kw("const"), UseChars \o action, Kw("="),
                                        Kw("("), Kw("params"), Kw(":"),
                                        action \o ParamsChars, Kw(")")>>)

\* userController_getUser and adminController_getUser of the group User,
\* with different parameters, have both been stored as useGetUser, and the
\* types text declares GetUserParams twice
C27_Witness ==
    /\ api = "generateReactHooks" /\ pc = "returned" /\ tmpl.hook /\ Len(out) = 1
    /\ Len(endpointsByTag) = 1
    /\ Len(endpointsByTag[1].endpoints) = 2
    /\ endpointsByTag[1].endpoints[1].endpointInfo.operationId = IdUserControllerGetUser
    /\ endpointsByTag[1].endpoints[2].endpointInfo.operationId = IdAdminControllerGetUser
    /\ DeclaredNames(out[1].hooks, "export", "const") = <<UseGetUser, UseGetUser>>
    /\ CountTokens(out[1].types, <<Kw("export"), Kw("interface"),
                                    IdGetUserParams>>) = 2

----------------------------------------------------------------------------
(* The binding and its parameter interface *)

\* the binding takes params of an interface:  export const name = (params: Name)
TakesParams(hook) ==
    /\ Len(hook) >= 8
    /\ SubSeq(hook, 5, 7) = <<Kw("("), Kw("params"), Kw(":")>>

\* the interface name the binding refers to
ParamsTypeOf(hook) == hook[8]

\* C28: generateReactQueryHook marks hasParams exactly when
\* generateParamInterface returns a non-empty interface for the same
\* endpoint, that is when the endpoint has a path or a query parameter, and
\* the interface name a binding refers to is the name that
\* generateParamInterface declares.
C28_BindingAgreesWithInterface ==
    (api = "generateReactQueryHook" /\ pc = "returned" /\ tmpl.hook) =>
        LET interface == generateParamInterface(arg.path, arg.method, arg.endpointInfo,
                                                arg.schemas)
            hookData == HookData(arg.path, arg.method, arg.endpointInfo, arg.schemas)
        IN /\ hookData.hasParams <=> interface # <<>>
           /\ interface # <<>> <=> HasPathOrQueryParams(arg.endpointInfo)
           /\ IsGetMethod(arg.method) => (TakesParams(ret) <=> interface # <<>>)
           /\ interface # <<>> =>
                /\ SubSeq(interface, 1, 2) = <<Kw("export"), Kw("interface")>>
                /\ hookData.paramInterfaceName = interface[3]
           /\ TakesParams(ret) =>
                /\ interface # <<>>
                /\ ParamsTypeOf(ret) = interface[3]

\* the binding of adminController_getUser with a path and a query parameter
\* takes params of GetUserParams
C28_Witness ==
    /\ api = "generateReactQueryHook" /\ pc = "returned" /\ tmpl.hook
    /\ ArgOperationId = IdAdminControllerGetUser
    /\ Has(arg.endpointInfo, "parameters")
    /\ arg.endpointInfo.parameters = <<ParamId(TRUE), ParamQuery>>
    /\ TakesParams(ret)
    /\ ParamsTypeOf(ret) = IdGetUserParams

\* C29: for every endpoint the binding name has a non-empty action part
\* after 'use' and the interface name has a non-empty part before 'Params',
\* also when the endpoint declares no operationId and the identifier is
\* synthesized from method and path.
C29_NamesHaveActionPart ==
    /\ (api = "generateReactQueryHook" /\ pc = "returned" /\ tmpl.hook) =>
            /\ Len(BindingNameOf(ret)) > Len(UseChars)
            /\ SubSeq(BindingNameOf(ret), 1, Len(UseChars)) = UseChars
            /\ TakesParams(ret) => Len(ParamsTypeOf(ret)) > Len(ParamsChars)
    /\ (api = "generateParamInterface" /\ pc = "returned" /\ ret # <<>>) =>
            Len(ret[3]) > Len(ParamsChars)

\* the same for the endpoints that declare an operationId which does not
\* end with '_' and has a word character after its last '_'
C29_NamedAfterAction ==
    LET id == ArgOperationId
        action == IF HasOwnerPrefix(id) THEN AfterLast(id, "_") ELSE id
    IN (pc = "returned" /\ tmpl.hook /\ Has(arg.endpointInfo, "operationId")
        /\ action # <<>>) => C29_NamesHaveActionPart

----------------------------------------------------------------------------
(* saveHooksByTag: the artifacts of the tag groups on disk *)

\* most tag groups of a map that is saved
MaxTags == 2

\* tags that differ from each other: in the case of a letter, in a space
SavedTags ==
    {User, <<"u","s","e","r">>, Admin, <<"m","y"," ","t","a","g">>, <<"m","y","T","a","g">>}

\* the artifact of a tag: its hooks text names the tag, its types text names
\* the tag or is empty
ArtifactsOf(tag) ==
    {[tag |-> tag, hooks |-> <<Kw("hooks"), tag>>, types |-> types] :
        types \in {<<>>, <<Kw("types"), tag>>}}

\* the maps that are saved: up to MaxTags entries, every tag once
SavedMaps ==
    {m \in SeqsUpTo(UNION {ArtifactsOf(tag) : tag \in SavedTags}, MaxTags) :
        \A i, j \in 1..Len(m) : m[i].tag = m[j].tag => i = j}

OutputDir == <<Kw("."), Kw("out")>>

\* path.join(outputDir, toCamelCase(tag))
TagDir(outputDir, tag) == Append(outputDir, toCamelCase(tag))

\* path.join(tagDir, `${toCamelCase(tag)}.hooks.ts`), and the same for types
TagFileName(outputDir, tag, kind) ==
    Append(TagDir(outputDir, tag), Append(toCamelCase(tag), kind))

\* the temporary file of formatCode for a TypeScript file
TempPathTs == <<Kw(""), Kw("tmp"), Kw("prettier-tmp.ts")>>

\* the text prettier leaves in the file it rewrites
Formatted(code) == <<Kw("formatted")>> \o code

\* formatCode(code, filepath): what it returns, the calls it makes, the
\* files it leaves, the warnings it logs
FormatCodeReturns(w, code) ==
    IF w.inTest \/ ~w.prettier.ok THEN code ELSE Formatted(code)

FormatCodeCalls(w, code) ==
    IF w.inTest THEN <<>>
    ELSE <<FsCall("fs.writeFileSync", <<TempPathTs, code, "utf8">>),
           FsCall("execSync", <<PrettierCommand(TempPathTs)>>)>>
         \o (IF w.prettier.ok
             THEN <<FsCall("fs.readFileSync", <<TempPathTs, "utf8">>),
                    FsCall("fs.unlinkSync", <<TempPathTs>>)>>
             ELSE <<>>)

FormatCodeFiles(w, files, code) ==
    IF w.inTest \/ w.prettier.ok THEN files ELSE WriteFile(files, TempPathTs, code)

FormatCodeWarnings(w) ==
    IF w.inTest \/ w.prettier.ok THEN <<>> ELSE <<(<<Kw("warn"), Kw("Failed to format")>>)>>

\* fs.existsSync(dir), and fs.mkdirSync(dir, { recursive: true }) when it is false
EnsureDirCalls(dirs, dir) ==
    <<FsCall("fs.existsSync", <<dir>>)>>
    \o (IF dir \in dirs THEN <<>>
        ELSE <<FsCall("fs.mkdirSync", <<dir, [recursive |-> TRUE]>>)>>)

\* types.trim(): the text has something other than white space
NotBlank(text) == \E i \in 1..Len(text) : \E k \in 1..Len(text[i]) : ~IsSpace(text[i][k])

InitSaveHooks ==
    /\ pc = "ready"
    /\ api = "saveHooksByTag"
    /\ arg \in [hooksByTag : SavedMaps, outputDir : {OutputDir}]
    /\ \E ds \in {{<<Kw(".")>>}, {<<Kw(".")>>, OutputDir}}, test \in BOOLEAN, ok \in BOOLEAN :
        world = [dirs |-> ds, files |-> {}, inTest |-> test, prettier |-> [ok |-> ok]]
    /\ calls = <<>>
    /\ doc = <<>>
    /\ tagIdx = 1
    /\ Unused({"suspended", "groupVars", "tmpl", "endpointsByTag", "roots", "result",
               "changed", "passes", "out", "thrown", "console", "run", "prevOut", "ret"})

\* saveHooksByTag before its loop: outputDir is created when it is missing
CallSaveHooksByTag ==
    /\ pc = "ready"
    /\ api = "saveHooksByTag"
    /\ calls' = calls \o EnsureDirCalls(world.dirs, arg.outputDir)
    /\ world' = [world EXCEPT !.dirs = @ \cup WithParents(arg.outputDir)]
    /\ pc' = IF arg.hooksByTag = <<>> THEN "returned" ELSE "tag"
    /\ UNCHANGED <<api, doc, tmpl, endpointsByTag, tagIdx, roots, result, changed, passes,
                   groupVars, out, thrown, console, run, prevOut, arg, ret, suspended>>

\* an iteration of the loop over hooksByTag: the directory of the tag, the
\* hooks file, and the types file when the types text is not blank
SaveTagArtifact ==
    /\ pc = "tag"
    /\ LET entry == arg.hooksByTag[tagIdx]
           tagDir == TagDir(arg.outputDir, entry.tag)
           hooksFileName == TagFileName(arg.outputDir, entry.tag, ".hooks.ts")
           typesFileName == TagFileName(arg.outputDir, entry.tag, ".types.ts")
           formattedHooks == FormatCodeReturns(world, entry.hooks)
           formattedTypes == FormatCodeReturns(world, entry.types)
           afterHooks == WriteFile(FormatCodeFiles(world, world.files, entry.hooks),
                                   hooksFileName, formattedHooks)
       IN /\ calls' = calls \o EnsureDirCalls(world.dirs, tagDir)
                      \o FormatCodeCalls(world, entry.hooks)
                      \o <<FsCall("fs.writeFileSync", <<hooksFileName, formattedHooks, "utf8">>)>>
                      \o (IF NotBlank(entry.types)
                          THEN FormatCodeCalls(world, entry.types)
                               \o <<FsCall("fs.writeFileSync",
                                            <<typesFileName, formattedTypes, "utf8">>)>>
                          ELSE <<>>)
          /\ world' = [world EXCEPT
                          !.dirs = @ \cup {tagDir},
                          !.files = IF NotBlank(entry.types)
                                    THEN WriteFile(FormatCodeFiles(world, afterHooks, entry.types),
                                                   typesFileName, formattedTypes)
                                    ELSE afterHooks]
          /\ console' = console \o FormatCodeWarnings(world)
                        \o (IF NotBlank(entry.types) THEN FormatCodeWarnings(world) ELSE <<>>)
    /\ tagIdx' = tagIdx + 1
    /\ pc' = IF tagIdx = Len(arg.hooksByTag) THEN "returned" ELSE "tag"
    /\ UNCHANGED <<api, doc, tmpl, endpointsByTag, roots, result, changed, passes,
                   groupVars, out, thrown, run, prevOut, arg, ret, suspended>>

NextSaveHooks == CallSaveHooksByTag \/ SaveTagArtifact

SpecSaveHooks == InitSaveHooks /\ [][NextSaveHooks]_vars

\* the file of the disk at a path holds the text
OnDisk(path, text) == [path |-> path, text |-> text] \in world.files

\* the artifact of an entry of the map is on disk: its hooks file and, when
\* it has types, its types file hold what formatCode made of its texts
ArtifactOnDisk(entry) ==
    /\ OnDisk(TagFileName(arg.outputDir, entry.tag, ".hooks.ts"),
              FormatCodeReturns(world, entry.hooks))
    /\ NotBlank(entry.types) =>
            OnDisk(TagFileName(arg.outputDir, entry.tag, ".types.ts"),
                   FormatCodeReturns(world, entry.types))

\* C30: saveHooksByTag writes the artifacts of distinct tag groups to
\* distinct files: for any two different tags the hooks file and the types
\* file of one are never overwritten by those of the other, so after the
\* call the artifact of every tag is on disk.
C30_EveryTagOnDisk ==
    (api = "saveHooksByTag" /\ pc = "returned") =>
        /\ \A i, j \in 1..Len(arg.hooksByTag) :
              i # j => \A kind \in {".hooks.ts", ".types.ts"} :
                  TagFileName(arg.outputDir, arg.hooksByTag[i].tag, kind)
                    # TagFileName(arg.outputDir, arg.hooksByTag[j].tag, kind)
        /\ \A i \in 1..Len(arg.hooksByTag) : ArtifactOnDisk(arg.hooksByTag[i])

\* the same for the maps whose tags stay different when written in camel case
C30_EveryCamelCaseTagOnDisk ==
    (\A i, j \in 1..Len(arg.hooksByTag) :
        i # j => toCamelCase(arg.hooksByTag[i].tag) # toCamelCase(arg.hooksByTag[j].tag))
    => C30_EveryTagOnDisk

====
